---- MODULE Spec2Model ----
(***************************************************************************)
(* A model of the pitlang interpreter: the tree-walk evaluator             *)
(* (src/src/treewalk), the code generator and the stack VM                 *)
(* (src/src/virtualmachine).  A run takes one program, evaluates it with   *)
(* the tree-walk evaluator, compiles it and runs the bytecode on the VM.   *)
(* Numbers are modelled by integers; heap cells (Rc<RefCell<..>>) by       *)
(* indices into sequences.                                                 *)
(***************************************************************************)
EXTENDS Integers, Sequences, FiniteSets, TLC

VARIABLES
    program,        \* the input: a family of programs and the member chosen in it
    phase,          \* "start" | "lex" | "treewalk" | "codegen" | "vm" | "finished"
    tw_ctl,         \* evaluate_node's position: a node to evaluate or a value returned
    tw_k,           \* the Rust call stack of evaluate_node: pending continuations
    current_scope,  \* TreeWalk.current_scope
    tw_scopes,      \* the Scope cells
    tw_arrs,        \* the Vec cells of Value::Array
    tw_objs,        \* the HashMap cells of Value::Object
    tw_out,         \* stdout of the tree-walk run
    tw_status,      \* "run" | "done" | "error" | "unmodelled"
    tw_error,       \* the panic message
    tw_result,      \* evaluate()'s value
    cg,             \* the CodeGenerator after generate_bytecode, with its panic flag
    stack,          \* VM.stack
    call_stack,     \* VM.call_stack: CallFrame records
    globals,        \* VM.globals
    vm_envs,        \* the Environment cells
    vm_arrs,        \* the Vec cells of the VM's Value::Array
    vm_objs,        \* the HashMap cells of the VM's Value::Object
    vm_out,         \* stdout of the VM run
    vm_status,      \* "idle" | "run" | "done" | "error" | "panic" | "unmodelled"
    vm_error,       \* the Err string or the panic message
    vm_result,      \* VM::run's value
    lexer,          \* tokenize's locals: the text, chars' position, line, col, tokens
    parser          \* parse's result: Ok(Program) | Err(errors), with the Parser at its end

tw_vars == <<tw_ctl, tw_k, current_scope, tw_scopes, tw_arrs, tw_objs, tw_out,
             tw_status, tw_error, tw_result>>

vm_vars == <<cg, stack, call_stack, globals, vm_envs, vm_arrs, vm_objs, vm_out,
             vm_status, vm_error, vm_result>>

fe_vars == <<lexer, parser>>

vars == <<program, phase, tw_vars, vm_vars, fe_vars>>

-----------------------------------------------------------------------------
(* treewalk::value::Value *)
Number(n) == [t |-> "Number", n |-> n]
Boolean(b) == [t |-> "Boolean", b |-> b]
String(s) == [t |-> "String", s |-> s]
Return(v) == [t |-> "Return", val |-> v]
Array(ref) == [t |-> "Array", ref |-> ref]
Function(parameters, body, env) ==
    [t |-> "Function", parameters |-> parameters, body |-> body, env |-> env]
RustFunction(name) == [t |-> "RustFunction", name |-> name]
Object(ref) == [t |-> "Object", ref |-> ref]
Method(receiver, method_name) ==
    [t |-> "Method", receiver |-> receiver, method_name |-> method_name]
Null == [t |-> "Null"]

(* common::Value as the VM uses it; common::Function *)
VmFunction(instructions, constants, parameters, name) ==
    [t |-> "Function", instructions |-> instructions, constants |-> constants,
     parameters |-> parameters, name |-> name]
StdFunction(name) == [t |-> "StdFunction", name |-> name]
Unit == [t |-> "Unit"]

(* ast::ASTNode; an Option is a sequence of length 0 or 1 *)
NumberLiteral(n) == [kind |-> "NumberLiteral", n |-> n]
StringLiteral(s) == [kind |-> "StringLiteral", s |-> s]
BooleanLiteral(b) == [kind |-> "BooleanLiteral", b |-> b]
NullLiteral == [kind |-> "NullLiteral"]
Expression(e) == [kind |-> "Expression", expr |-> e]
Variable(name) == [kind |-> "Variable", name |-> name]
Block(statements) == [kind |-> "Block", statements |-> statements]
ObjectLiteral(properties) == [kind |-> "ObjectLiteral", properties |-> properties]
ArrayLiteral(values) == [kind |-> "ArrayLiteral", values |-> values]
BinaryOp(left, op, right) ==
    [kind |-> "BinaryOp", left |-> left, op |-> op, right |-> right]
UnaryOp(op, operand) == [kind |-> "UnaryOp", op |-> op, operand |-> operand]
VariableDeclaration(name, value) ==
    [kind |-> "VariableDeclaration", name |-> name, value |-> value]
IfStatement(condition, consequence, alternative) ==
    [kind |-> "IfStatement", condition |-> condition,
     consequence |-> consequence, alternative |-> alternative]
FunctionCall(callee, arguments) ==
    [kind |-> "FunctionCall", callee |-> callee, arguments |-> arguments]
FunctionDeclaration(name, parameters, body) ==
    [kind |-> "FunctionDeclaration", name |-> name, parameters |-> parameters,
     body |-> body]
ReturnStatement(e) == [kind |-> "ReturnStatement", expr |-> e]
WhileStatement(condition, body) ==
    [kind |-> "WhileStatement", condition |-> condition, body |-> body]
MemberAccess(object, member) ==
    [kind |-> "MemberAccess", object |-> object, member |-> member]
(* parser.rs builds this node; ast.rs does not declare it *)
ForStatement(start, condition, iter, body) ==
    [kind |-> "ForStatement", start |-> start, condition |-> condition,
     iter |-> iter, body |-> body]

-----------------------------------------------------------------------------
(* Value::is_truthy *)
is_truthy(v) ==
    CASE v.t = "Boolean" -> v.b
      [] v.t = "Number" -> v.n /= 0
      [] v.t = "String" -> v.s /= ""
      [] v.t = "Null" -> FALSE
      [] OTHER -> TRUE

(* Scope::new, Scope::insert, Scope::get; parent 0 is None *)
Scope_new(parent) == [variables |-> <<>>, parent |-> parent]

Scope_insert(scopes, id, name, value) ==
    [scopes EXCEPT ![id].variables = (name :> value) @@ @]

RECURSIVE Scope_get(_, _, _)
Scope_get(scopes, id, name) ==
    IF name \in DOMAIN scopes[id].variables
    THEN <<scopes[id].variables[name]>>
    ELSE IF scopes[id].parent = 0 THEN <<>>
         ELSE Scope_get(scopes, scopes[id].parent, name)

(* Scope::set: the innermost scope of the chain that defines the name, 0 if none *)
RECURSIVE DefiningScope(_, _, _)
DefiningScope(scopes, id, name) ==
    IF name \in DOMAIN scopes[id].variables THEN id
    ELSE IF scopes[id].parent = 0 THEN 0
         ELSE DefiningScope(scopes, scopes[id].parent, name)

Scope_set(scopes, id, name, value) ==
    LET d == DefiningScope(scopes, id, name)
    IN  IF d = 0 THEN [ok |-> FALSE, scopes |-> scopes]
        ELSE [ok |-> TRUE, scopes |-> Scope_insert(scopes, d, name, value)]

-----------------------------------------------------------------------------
(* Pure helpers of the evaluator.  A helper that can fail returns a record  *)
(* [r |-> "ok", val |-> v], [r |-> "error", msg |-> m] or                   *)
(* [r |-> "unmodelled"] (a value or effect outside the integer model).     *)
Ok(v) == [r |-> "ok", val |-> v]
Err(m) == [r |-> "error", msg |-> m]
Unmodelled == [r |-> "unmodelled"]

Primitive(v) == v.t \in {"Number", "Boolean", "String", "Null"}

(* #[derive(PartialEq)] on Value, for the cases that need no heap walk *)
ValueEq(a, b) ==
    /\ a.t = b.t
    /\ CASE a.t = "Number" -> a.n = b.n
         [] a.t = "Boolean" -> a.b = b.b
         [] a.t = "String" -> a.s = b.s
         [] OTHER -> TRUE

EqDecidable(a, b) == a.t /= b.t \/ Primitive(a)

(* `&` on the i64 truncations, for operands that are naturals *)
RECURSIVE BitAndNat(_, _)
BitAndNat(a, b) ==
    IF a = 0 \/ b = 0 THEN 0
    ELSE (IF a % 2 = 1 /\ b % 2 = 1 THEN 1 ELSE 0) + 2 * BitAndNat(a \div 2, b \div 2)

Numbers(l, r) == l.t = "Number" /\ r.t = "Number"

evaluate_addition(l, r) ==
    IF Numbers(l, r) THEN Ok(Number(l.n + r.n))
    ELSE IF l.t = "String" /\ r.t = "String" THEN Ok(String(l.s \o r.s))
    ELSE Err("Unsupported binary operation")

evaluate_division(l, r) ==
    IF ~Numbers(l, r) THEN Err("Unsupported binary operation")
    ELSE IF r.n /= 0 /\ l.n % r.n = 0 /\ l.n >= 0 /\ r.n > 0
         THEN Ok(Number(l.n \div r.n))
         ELSE Unmodelled

evaluate_mod(l, r) ==
    IF ~Numbers(l, r) THEN Err("Unsupported binary operation")
    ELSE IF l.n >= 0 /\ r.n > 0 THEN Ok(Number(l.n % r.n)) ELSE Unmodelled

evaluate_bitwise_and(l, r) ==
    IF ~Numbers(l, r) THEN Err("Unsupported binary operation")
    ELSE IF l.n >= 0 /\ r.n >= 0 THEN Ok(Number(BitAndNat(l.n, r.n))) ELSE Unmodelled

(* evaluator.rs:406 applies `&` here as well *)
evaluate_bitwise_or(l, r) ==
    IF ~Numbers(l, r) THEN Err("Unsupported binary operation")
    ELSE IF l.n >= 0 /\ r.n >= 0 THEN Ok(Number(BitAndNat(l.n, r.n))) ELSE Unmodelled

evaluate_comparison(op, l, r) ==
    IF ~Numbers(l, r) THEN Err("Unsupported binary operation")
    ELSE Ok(Boolean(CASE op = "Greater" -> l.n > r.n
                      [] op = "GreaterEqual" -> l.n >= r.n
                      [] op = "Less" -> l.n < r.n
                      [] op = "LessEqual" -> l.n <= r.n))

(* the inner `match op` of evaluate_binary_op, Assign excepted *)
binary_op_value(op, l, r) ==
    CASE op = "Plus" -> evaluate_addition(l, r)
      [] op = "Minus" -> IF Numbers(l, r) THEN Ok(Number(l.n - r.n))
                         ELSE Err("Unsupported binary operation")
      [] op = "Star" -> IF Numbers(l, r) THEN Ok(Number(l.n * r.n))
                        ELSE Err("Unsupported binary operation")
      [] op = "Slash" -> evaluate_division(l, r)
      [] op = "Equal" -> IF EqDecidable(l, r) THEN Ok(Boolean(ValueEq(l, r)))
                         ELSE Unmodelled
      [] op = "NotEqual" -> IF EqDecidable(l, r) THEN Ok(Boolean(~ValueEq(l, r)))
                            ELSE Unmodelled
      [] op \in {"Greater", "GreaterEqual", "Less", "LessEqual"} ->
            evaluate_comparison(op, l, r)
      [] op = "BitAnd" -> evaluate_bitwise_and(l, r)
      [] op = "BitOr" -> evaluate_bitwise_or(l, r)
      [] op = "Mod" -> evaluate_mod(l, r)
      [] OTHER -> Err("Unknown binary operator")

(* evaluate_unary_op after the operand is evaluated *)
unary_op_value(op, val) ==
    CASE op = "Minus" -> IF val.t = "Number" THEN Ok(Number(0 - val.n))
                         ELSE Err("Operand must be a number")
      [] op = "Bang" -> IF val.t = "Boolean" THEN Ok(Boolean(~val.b))
                        ELSE Err("Operand must be a boolean")
      [] OTHER -> Err("Unknown unary operator")

(* `as usize` and `as i64` on an integral f64: the cast to usize saturates *)
AsUsize(n) == IF n < 0 THEN 0 ELSE n

RemoveAt(s, i) == SubSeq(s, 1, i - 1) \o SubSeq(s, i + 1, Len(s))

RECURSIVE PositionFrom(_, _, _)
PositionFrom(s, v, i) ==
    IF i > Len(s) THEN -1
    ELSE IF ValueEq(s[i], v) THEN i - 1
    ELSE PositionFrom(s, v, i + 1)

(* treewalk::stdlib::array_methods: the result and the Vec cell afterwards *)
array_method(name, a, args) ==
    LET n == Len(a)
        keep(res) == [res |-> res, arr |-> a]
        noarg == keep(Err("index out of bounds: args"))
    IN  CASE name = "length" -> keep(Ok(Number(n)))
          [] name = "remove" ->
                IF args = <<>> THEN noarg
                ELSE IF args[1].t /= "Number" THEN keep(Err("Index must be a number"))
                ELSE LET i == AsUsize(args[1].n)
                     IN  IF i < n THEN [res |-> Ok(a[i + 1]), arr |-> RemoveAt(a, i + 1)]
                         ELSE keep(Err("Index out of bounds"))
          [] name = "push" ->
                IF args = <<>> THEN noarg
                ELSE [res |-> Ok(Null), arr |-> Append(a, args[1])]
          [] name = "set" ->
                IF args = <<>> THEN noarg
                ELSE IF args[1].t /= "Number" THEN keep(Err("Index must be a number"))
                ELSE LET i == AsUsize(args[1].n)
                     IN  IF i < n
                         THEN IF Len(args) < 2 THEN noarg
                              ELSE [res |-> Ok(Null), arr |-> [a EXCEPT ![i + 1] = args[2]]]
                         ELSE keep(Err("Index out of bounds"))
          [] name = "get" ->
                IF args = <<>> THEN noarg
                ELSE IF args[1].t /= "Number" THEN keep(Err("Index must be a number"))
                ELSE LET i == IF args[1].n < 0 THEN n + args[1].n ELSE args[1].n
                     IN  IF i >= 0 /\ i < n THEN keep(Ok(a[i + 1]))
                         ELSE keep(Err("Index out of bounds"))
          [] name = "pop" ->
                IF n > 0 THEN [res |-> Ok(a[n]), arr |-> SubSeq(a, 1, n - 1)]
                ELSE keep(Err("pop() called on empty array"))
          [] name = "find" ->
                IF args = <<>> THEN noarg
                ELSE IF \A i \in 1..n : EqDecidable(a[i], args[1])
                     THEN keep(Ok(Number(PositionFrom(a, args[1], 1))))
                     ELSE keep(Unmodelled)
          [] OTHER -> keep(Err("Method not found"))

(* treewalk::stdlib::string_methods and number_methods, on integral numbers *)
string_method(name, s, args) ==
    CASE name = "length" -> Ok(Number(Len(s)))
      [] name \in {"ord", "get", "to_int", "to_float", "replace", "split", "find"} ->
            Unmodelled
      [] OTHER -> Err("Method not found")

number_method(name, n, args) ==
    CASE name = "to_string" -> Ok(String(ToString(n)))
      [] name \in {"round", "floor", "ceil"} -> Ok(Number(n))
      [] OTHER -> Err("Method not found")

(* the keys of the `std` object built by evaluate_program *)
std_methods ==
    {"time", "random", "print", "println", "argv", "get_line", "write_file",
     "read_file", "exit"}

(* Value::print: the strings a value may print as (a HashMap iterates in any order) *)
Perms(S) ==
    {p \in [1..Cardinality(S) -> S] : \A i, j \in DOMAIN p : i /= j => p[i] /= p[j]}

RECURSIVE print_forms(_, _, _), print_elems(_, _, _, _), print_props(_, _, _, _, _)
print_forms(v, arrs, objs) ==
    CASE v.t = "Number" -> {ToString(v.n)}
      [] v.t = "Boolean" -> {IF v.b THEN "true" ELSE "false"}
      [] v.t = "String" -> {v.s}
      [] v.t = "Null" -> {"null"}
      [] v.t = "Array" ->
            {"[" \o e \o "]" : e \in print_elems(arrs[v.ref], 1, arrs, objs)}
      [] v.t = "Object" ->
            UNION {{"{" \o e \o "}" : e \in print_props(objs[v.ref], p, 1, arrs, objs)} :
                   p \in Perms(DOMAIN objs[v.ref])}
      [] v.t = "Function" -> {"Function"}
      [] v.t = "Method" -> {"Method: ." \o v.method_name}
      [] OTHER -> {"Unsupported value"}

print_elems(vs, i, arrs, objs) ==
    IF i > Len(vs) THEN {""}
    ELSE {a \o (IF i < Len(vs) THEN ", " ELSE "") \o b :
            a \in print_forms(vs[i], arrs, objs), b \in print_elems(vs, i + 1, arrs, objs)}

print_props(obj, p, i, arrs, objs) ==
    IF i > Len(p) THEN {""}
    ELSE {p[i] \o ": " \o a \o (IF i < Len(p) THEN ", " ELSE "") \o b :
            a \in print_forms(obj[p[i]], arrs, objs),
            b \in print_props(obj, p, i + 1, arrs, objs)}

(* std.print / std.println applied to evaluated arguments: the possible texts *)
RECURSIVE print_args(_, _, _, _)
print_args(args, i, arrs, objs) ==
    IF i > Len(args) THEN {""}
    ELSE {a \o b : a \in print_forms(args[i], arrs, objs),
                   b \in print_args(args, i + 1, arrs, objs)}

-----------------------------------------------------------------------------
(* The parser: parser.rs.  A Token is {kind, value, line, column}; value   *)
(* is the sequence of the lexeme's characters.  The Parser is a record     *)
(* {tokens, current, errors}; ok is cleared by a panic (an index out of    *)
(* bounds), syncs records the cursor before and after each call of         *)
(* error(), and calls the cursor before and after each call of             *)
(* parse_statement by parse_program.                                       *)
Token_new(kind, value, line, column) ==
    [kind |-> kind, value |-> value, line |-> line, column |-> column]

RECURSIVE Concat(_)
Concat(chars) == IF chars = <<>> THEN "" ELSE Head(chars) \o Concat(Tail(chars))

DigitValue(c) ==
    CASE c = "0" -> 0 [] c = "1" -> 1 [] c = "2" -> 2 [] c = "3" -> 3 [] c = "4" -> 4
      [] c = "5" -> 5 [] c = "6" -> 6 [] c = "7" -> 7 [] c = "8" -> 8 [] c = "9" -> 9

RECURSIVE DecimalValue(_, _)
DecimalValue(chars, acc) ==
    IF chars = <<>> THEN acc
    ELSE DecimalValue(Tail(chars), 10 * acc + DigitValue(Head(chars)))

(* str::parse::<f64>() on a lexeme of digits and dots: an integer lexeme   *)
(* gives its value, one dot gives the pair of its parts, more dots fail    *)
parse_f64(chars) ==
    LET dots == {i \in DOMAIN chars : chars[i] = "."}
    IN  IF dots = {} THEN [ok |-> TRUE, n |-> DecimalValue(chars, 0)]
        ELSE IF Cardinality(dots) = 1
        THEN LET d == CHOOSE i \in dots : TRUE
                 whole == DecimalValue(SubSeq(chars, 1, d - 1), 0)
                 frac == SubSeq(chars, d + 1, Len(chars))
             IN  IF \A i \in DOMAIN frac : frac[i] = "0"
                 THEN [ok |-> TRUE, n |-> whole]
                 ELSE [ok |-> TRUE, n |-> <<whole, frac>>]
        ELSE [ok |-> FALSE, n |-> 0]

Parser_new(tokens) ==
    [tokens |-> tokens, current |-> 0, errors |-> <<>>, ok |-> TRUE, syncs |-> <<>>,
     calls |-> <<>>]

Res(p, node) == [p |-> p, node |-> node]
InBounds(p) == p.current < Len(p.tokens)
Cur(p) == p.tokens[p.current + 1]
LastToken(p) == p.tokens[Len(p.tokens)]
(* self.tokens[self.current] with current >= tokens.len() *)
IndexPanic(p) == [p EXCEPT !.ok = FALSE]

(* the fault of a recovery that gives up on the rest of the input *)
SkipToEnd(p) == [p EXCEPT !.current = Len(p.tokens)]

(* the fault of a recovery that steps past the end of the tokens *)
SkipPastEnd(p) == [p EXCEPT !.current = Len(p.tokens) + 1]

(* lines 25-33 *)
RECURSIVE synchronize_tokens(_)
synchronize_tokens(p) ==
    IF InBounds(p)
    THEN IF Cur(p).kind = "SemiColon" THEN [p EXCEPT !.current = @ + 1]
         ELSE synchronize_tokens([p EXCEPT !.current = @ + 1])
    ELSE p

ParserError_new(message, line, column) ==
    [message |-> message, line |-> line, column |-> column]

Parser_error(p, message, token) ==
    IF ~p.ok THEN p
    ELSE LET q == synchronize_tokens(
                      [p EXCEPT !.errors = Append(@, ParserError_new(message, token.line,
                                                                     token.column))])
         IN  [q EXCEPT !.syncs = Append(@, [from |-> p.current, to |-> q.current])]

advance(p) ==
    IF ~p.ok THEN [p |-> p, token |-> LastToken(p)]
    ELSE IF InBounds(p) THEN [p |-> [p EXCEPT !.current = @ + 1], token |-> Cur(p)]
    ELSE [p |-> Parser_error(p, "Unexpected end of input", LastToken(p)),
          token |-> LastToken(p)]

expect(p, kind) ==
    IF ~p.ok THEN p
    ELSE IF ~InBounds(p) THEN Parser_error(p, "Expected token: " \o kind, LastToken(p))
    ELSE IF Cur(p).kind /= kind THEN Parser_error(p, "Expected token: " \o kind, Cur(p))
    ELSE advance(p).p

(* the fault of a table with a single level *)
OneLevel(kind) ==
    IF kind \in {"Assign", "Or", "And", "BitAnd", "BitXor", "BitOr", "Equal", "NotEqual",
                 "Less", "LessEqual", "Greater", "GreaterEqual", "Plus", "Minus", "Star",
                 "Mod", "Slash", "LParen", "Dot", "Inc", "Dec"}
    THEN 1 ELSE 0

(* lines 374-394 *)
get_operator_precedence(kind) ==
    CASE kind = "Assign" -> 1
      [] kind \in {"Inc", "Dec"} -> 2
      [] kind = "Or" -> 3
      [] kind = "And" -> 4
      [] kind = "BitAnd" -> 5
      [] kind = "BitXor" -> 6
      [] kind = "BitOr" -> 7
      [] kind \in {"Equal", "NotEqual"} -> 8
      [] kind \in {"Less", "LessEqual", "Greater", "GreaterEqual"} -> 9
      [] kind \in {"Plus", "Minus"} -> 10
      [] kind \in {"Star", "Mod", "Slash"} -> 11
      [] kind = "LParen" -> 12
      [] kind = "Dot" -> 13
      [] OTHER -> 0

(* a recursive descent into one of the parser's methods, by name: the calls *)
(* that re-enter a method higher in the call chain                          *)
RECURSIVE Descend(_, _, _)

(* lines 114-124: the loop of parse_parameters *)
RECURSIVE parse_parameters_loop(_, _)
parse_parameters_loop(p, parameters) ==
    IF p.ok /\ InBounds(p) /\ Cur(p).kind /= "RParen"
    THEN LET a == advance(p)
             params == Append(parameters, Concat(a.token.value))
         IN  IF InBounds(a.p) /\ Cur(a.p).kind = "RParen"
             THEN [p |-> a.p, parameters |-> params]
             ELSE parse_parameters_loop(expect(a.p, "Comma"), params)
    ELSE [p |-> p, parameters |-> parameters]

(* lines 111-127 *)
parse_parameters(p) ==
    LET loop == parse_parameters_loop(expect(p, "LParen"), <<>>)
    IN  [p |-> expect(loop.p, "RParen"), parameters |-> loop.parameters]

(* lines 325-333: the loop of the object literal *)
RECURSIVE parse_object_loop(_, _)
parse_object_loop(p, properties) ==
    IF ~p.ok THEN [p |-> p, properties |-> properties]
    ELSE IF ~InBounds(p) THEN [p |-> IndexPanic(p), properties |-> properties]
    ELSE IF Cur(p).kind = "RBrace" THEN [p |-> p, properties |-> properties]
    ELSE LET key == advance(p)
             value == Descend("parse_expression", expect(key.p, "Colon"), 0)
             props == Append(properties, <<Concat(key.token.value), value.node>>)
             q == value.p
         IN  IF ~q.ok THEN [p |-> q, properties |-> props]
             ELSE IF ~InBounds(q) THEN [p |-> IndexPanic(q), properties |-> props]
             ELSE IF Cur(q).kind = "Comma" THEN parse_object_loop(advance(q).p, props)
             ELSE parse_object_loop(q, props)

(* lines 340-345: the loop of the array literal *)
RECURSIVE parse_array_loop(_, _)
parse_array_loop(p, elements) ==
    IF ~p.ok THEN [p |-> p, elements |-> elements]
    ELSE IF ~InBounds(p) THEN [p |-> IndexPanic(p), elements |-> elements]
    ELSE IF Cur(p).kind = "RBrack" THEN [p |-> p, elements |-> elements]
    ELSE LET e == Descend("parse_expression", p, 0)
             elems == Append(elements, e.node)
             q == e.p
         IN  IF ~q.ok THEN [p |-> q, elements |-> elems]
             ELSE IF ~InBounds(q) THEN [p |-> IndexPanic(q), elements |-> elems]
             ELSE IF Cur(q).kind = "Comma" THEN parse_array_loop(advance(q).p, elems)
             ELSE parse_array_loop(q, elems)

(* lines 291-372 *)
parse_nud(p) ==
    LET a == advance(p)
        token == a.token
        kind == token.kind
    IN  CASE kind = "Number" ->
               LET num == parse_f64(token.value)
               IN  IF num.ok THEN Res(a.p, NumberLiteral(num.n))
                   ELSE Res(Parser_error(a.p, "Failed to parse number", token),
                            NullLiteral)
          [] kind = "String" -> Res(a.p, StringLiteral(Concat(token.value)))
          [] kind = "Identifier" -> Res(a.p, Variable(Concat(token.value)))
          [] kind = "Function" -> Descend("parse_function_declaration", a.p, FALSE)
          [] kind = "True" -> Res(a.p, BooleanLiteral(TRUE))
          [] kind = "False" -> Res(a.p, BooleanLiteral(FALSE))
          [] kind = "Null" -> Res(a.p, NullLiteral)
          [] kind = "Dot" ->
               LET member == advance(a.p)
                   object == Descend("parse_nud", member.p, 0)
               IN  Res(object.p, MemberAccess(object.node, Concat(member.token.value)))
          [] kind = "LParen" ->
               LET expr == Descend("parse_expression", a.p, 0)
               IN  Res(expect(expr.p, "RParen"), expr.node)
          [] kind = "LBrace" ->
               LET loop == parse_object_loop(a.p, <<>>)
               IN  Res(expect(loop.p, "RBrace"), ObjectLiteral(loop.properties))
          [] kind = "LBrack" ->
               LET loop == parse_array_loop(a.p, <<>>)
               IN  Res(expect(loop.p, "RBrack"), ArrayLiteral(loop.elements))
          [] kind \in {"Minus", "Bang", "Inc", "Dec"} ->
               LET operand == Descend("parse_expression", a.p, 3)
               IN  Res(operand.p, UnaryOp(kind, operand.node))
          [] OTHER ->
               Res(Parser_error(a.p, "Unexpected token: " \o kind, token), NullLiteral)

(* lines 276-285: the loop of parse_arguments *)
RECURSIVE parse_arguments_loop(_, _)
parse_arguments_loop(p, arguments) ==
    LET e == Descend("parse_expression", p, 0)
        args == Append(arguments, e.node)
    IN  IF ~e.p.ok \/ ~InBounds(e.p) THEN [p |-> e.p, arguments |-> args]
        ELSE IF Cur(e.p).kind = "RParen" THEN [p |-> e.p, arguments |-> args]
        ELSE parse_arguments_loop(expect(e.p, "Comma"), args)

(* lines 273-289 *)
parse_arguments(p) ==
    IF ~p.ok THEN [p |-> p, arguments |-> <<>>]
    ELSE IF ~InBounds(p) THEN [p |-> IndexPanic(p), arguments |-> <<>>]
    ELSE LET loop == IF Cur(p).kind /= "RParen" THEN parse_arguments_loop(p, <<>>)
                     ELSE [p |-> p, arguments |-> <<>>]
         IN  [p |-> expect(loop.p, "RParen"), arguments |-> loop.arguments]

(* lines 235-271 *)
parse_led(p, left) ==
    LET a == advance(p)
        token == a.token
        precedence == get_operator_precedence(token.kind)
    IN  CASE token.kind = "LParen" ->
               LET arguments == Descend("parse_arguments", a.p, 0)
               IN  Res(arguments.p, FunctionCall(left, arguments.arguments))
          [] token.kind = "Dot" ->
               LET member == advance(a.p)
               IN  Res(member.p, MemberAccess(left, Concat(member.token.value)))
          [] OTHER ->
               LET right == Descend("parse_expression", a.p, precedence)
               IN  Res(right.p, BinaryOp(left, token.kind, right.node))

(* lines 226-230: the loop of parse_expression *)
RECURSIVE parse_expression_loop(_, _, _)
parse_expression_loop(p, left, precedence) ==
    IF p.ok /\ InBounds(p) /\ precedence < get_operator_precedence(Cur(p).kind)
    THEN LET led == Descend("parse_led", p, left)
         IN  parse_expression_loop(led.p, led.node, precedence)
    ELSE Res(p, left)

(* lines 215-233 *)
parse_expression(p, precedence) ==
    IF ~p.ok THEN Res(p, NullLiteral)
    ELSE IF ~InBounds(p)
    THEN Res(Parser_error(p, "Unexpected end of input in expression", LastToken(p)),
             NullLiteral)
    ELSE LET left == Descend("parse_nud", p, 0)
         IN  parse_expression_loop(left.p, left.node, precedence)

(* lines 181-191: the loop of parse_block; current < tokens.len() on entry *)
RECURSIVE parse_block_loop(_, _)
parse_block_loop(p, statements) ==
    IF ~p.ok \/ Cur(p).kind = "RBrace" THEN [p |-> p, statements |-> statements]
    ELSE LET s == Descend("parse_statement", p, 0)
             stmts == Append(statements, s.node)
         IN  IF ~s.p.ok THEN [p |-> s.p, statements |-> stmts]
             ELSE IF ~InBounds(s.p)
             THEN [p |-> Parser_error(s.p, "Unexpected end of input in block",
                                      LastToken(s.p)),
                   statements |-> stmts]
             ELSE parse_block_loop(s.p, stmts)

(* lines 169-194 *)
parse_block(p) ==
    LET q == expect(p, "LBrace")
    IN  IF ~q.ok THEN Res(q, Block(<<>>))
        ELSE IF ~InBounds(q)
        THEN Res(Parser_error(q, "Unexpected end of input in block", LastToken(q)),
                 Block(<<>>))
        ELSE LET loop == parse_block_loop(q, <<>>)
             IN  Res(expect(loop.p, "RBrace"), Block(loop.statements))

(* lines 87-99 *)
parse_for_statement(p) ==
    LET pre == Descend("parse_statement", expect(p, "For"), 0)
        cond == Descend("parse_expression", pre.p, 0)
        iter == Descend("parse_statement", cond.p, 0)
        block == Descend("parse_block", iter.p, 0)
    IN  Res(block.p, ForStatement(pre.node, cond.node, iter.node, block.node))

(* lines 101-109 *)
parse_while_statement(p) ==
    LET condition == Descend("parse_expression", expect(p, "While"), 0)
        body == Descend("parse_statement", condition.p, 0)
    IN  Res(body.p, WhileStatement(condition.node, body.node))

(* lines 129-138 *)
parse_return_statement(p) ==
    LET q == expect(p, "Return")
    IN  IF ~q.ok THEN Res(q, NullLiteral)
        ELSE IF ~InBounds(q) THEN Res(IndexPanic(q), NullLiteral)
        ELSE IF Cur(q).kind = "SemiColon"
        THEN Res(expect(q, "SemiColon"), ReturnStatement(NullLiteral))
        ELSE LET returnee == Descend("parse_expression", q, 0)
             IN  Res(expect(returnee.p, "SemiColon"), ReturnStatement(returnee.node))

(* lines 140-156 *)
parse_function_declaration(p, not_anonymous) ==
    LET named == IF not_anonymous THEN advance(expect(p, "Function"))
                 ELSE [p |-> p, token |-> LastToken(p)]
        name == IF not_anonymous THEN <<Concat(named.token.value)>> ELSE <<>>
        params == Descend("parse_parameters", named.p, 0)
        body == Descend("parse_block", params.p, 0)
    IN  Res(body.p, FunctionDeclaration(name, params.parameters, body.node))

(* lines 157-167 *)
parse_variable_declaration(p) ==
    LET name == advance(expect(p, "Let"))
        value == Descend("parse_expression", expect(name.p, "Assign"), 0)
    IN  Res(expect(value.p, "SemiColon"),
            VariableDeclaration(Concat(name.token.value), value.node))

(* lines 196-213 *)
parse_if_statement(p) ==
    LET condition == Descend("parse_expression", expect(p, "If"), 0)
        consequence == Descend("parse_statement", condition.p, 0)
        q == consequence.p
    IN  IF q.ok /\ InBounds(q) /\ Cur(q).kind = "Else"
        THEN LET alternative == Descend("parse_statement", advance(q).p, 0)
             IN  Res(alternative.p, IfStatement(condition.node, consequence.node,
                                                <<alternative.node>>))
        ELSE Res(q, IfStatement(condition.node, consequence.node, <<>>))

(* lines 53-85 *)
parse_statement(p) ==
    IF ~p.ok THEN Res(p, NullLiteral)
    ELSE IF ~InBounds(p)
    THEN Res(Parser_error(p, "Unexpected end of input in statement", LastToken(p)),
             NullLiteral)
    ELSE LET kind == Cur(p).kind
         IN  CASE kind = "Let" -> Descend("parse_variable_declaration", p, 0)
               [] kind = "If" -> Descend("parse_if_statement", p, 0)
               [] kind = "Function" -> Descend("parse_function_declaration", p, TRUE)
               [] kind = "Return" -> Descend("parse_return_statement", p, 0)
               [] kind = "LBrace" -> Descend("parse_block", p, 0)
               [] kind = "While" -> Descend("parse_while_statement", p, 0)
               [] kind = "For" -> Descend("parse_for_statement", p, 0)
               [] kind = "SemiColon" -> Descend("parse_statement", advance(p).p, 0)
               [] OTHER ->
                    LET expr == Descend("parse_expression", p, 0)
                    IN  IF expr.p.ok /\ InBounds(expr.p)
                           /\ Cur(expr.p).kind = "SemiColon"
                        THEN Res(expect(expr.p, "SemiColon"), expr.node)
                        ELSE expr

Descend(method, p, arg) ==
    CASE method = "parse_statement" -> parse_statement(p)
      [] method = "parse_for_statement" -> parse_for_statement(p)
      [] method = "parse_while_statement" -> parse_while_statement(p)
      [] method = "parse_parameters" -> parse_parameters(p)
      [] method = "parse_return_statement" -> parse_return_statement(p)
      [] method = "parse_function_declaration" -> parse_function_declaration(p, arg)
      [] method = "parse_variable_declaration" -> parse_variable_declaration(p)
      [] method = "parse_block" -> parse_block(p)
      [] method = "parse_if_statement" -> parse_if_statement(p)
      [] method = "parse_expression" -> parse_expression(p, arg)
      [] method = "parse_led" -> parse_led(p, arg)
      [] method = "parse_arguments" -> parse_arguments(p)
      [] method = "parse_nud" -> parse_nud(p)

(* the cursor before and after a call of parse_statement by parse_program; *)
(* returned is false when the call panicked                                *)
Called(before, after) ==
    [after EXCEPT !.calls = Append(@, [from |-> before.current, to |-> after.current,
                                       returned |-> after.ok])]

(* lines 43-45: the loop of parse_program *)
RECURSIVE parse_program_loop(_, _)
parse_program_loop(p, statements) ==
    IF p.ok /\ InBounds(p) /\ Cur(p).kind /= "EOF"
    THEN LET s == Descend("parse_statement", p, 0)
         IN  parse_program_loop(Called(p, s.p), Append(statements, s.node))
    ELSE [p |-> p, statements |-> statements]

Program(statements) == [kind |-> "Program", statements |-> statements]

(* lines 41-51: Ok(Program) | Err(errors); a panic returns nothing *)
parse_program(p) ==
    LET loop == parse_program_loop(p, <<>>)
    IN  [state |-> IF ~loop.p.ok THEN "panic"
                   ELSE IF loop.p.errors = <<>> THEN "ok" ELSE "err",
         ast |-> Program(loop.statements),
         errors |-> loop.p.errors,
         parser |-> loop.p]

(* lines 5-8 *)
parse(tokens) == parse_program(Parser_new(tokens))

-----------------------------------------------------------------------------
(* The inputs: source programs, as the AST the parser hands to evaluate().  *)
Std(m, args) == FunctionCall(MemberAccess(Variable("std"), m), args)
Invoke(f, args) == FunctionCall(Variable(f), args)
MethodCall(recv, m, args) == FunctionCall(MemberAccess(recv, m), args)
Let(x, e) == VariableDeclaration(x, e)
Assign(l, r) == BinaryOp(l, "Assign", r)
Fn(name, params, stmts) == FunctionDeclaration(<<name>>, params, Block(stmts))
Lambda(params, stmts) == FunctionDeclaration(<<>>, params, Block(stmts))
Num(n) == NumberLiteral(n)
Str(s) == StringLiteral(s)
V(x) == Variable(x)

Show(e) == Std("print", <<e>>)
Case(statements, status, out) == [statements |-> statements, status |-> status, out |-> out]

(* spec.md section 8, end-to-end scenarios 1..6 *)
Scenarios == <<
    Case(<<Std("println", <<BinaryOp(Num(1), "Plus", BinaryOp(Num(2), "Star", Num(3)))>>)>>,
         "done", "7\n"),
    Case(<<Fn("sq", <<"x">>, <<ReturnStatement(BinaryOp(V("x"), "Star", V("x")))>>),
           Std("println", <<Invoke("sq", <<Num(5)>>)>>)>>, "done", "25\n"),
    Case(<<Let("a", ArrayLiteral(<<Num(1), Num(2), Num(3)>>)),
           MethodCall(V("a"), "push", <<Num(4)>>),
           Std("println", <<MethodCall(V("a"), "length", <<>>)>>)>>, "done", "4\n"),
    Case(<<Fn("mk", <<>>,
              <<Let("c", Num(0)),
                ReturnStatement(Lambda(<<>>,
                    <<Assign(V("c"), BinaryOp(V("c"), "Plus", Num(1))),
                      ReturnStatement(V("c"))>>))>>),
           Let("f", Invoke("mk", <<>>)),
           Invoke("f", <<>>), Invoke("f", <<>>),
           Std("println", <<Invoke("f", <<>>)>>)>>, "done", "3\n"),
    Case(<<Let("o", ObjectLiteral(<< <<"x", Num(1)>> >>)),
           Assign(MemberAccess(V("o"), "x"),
                  BinaryOp(MemberAccess(V("o"), "x"), "Plus", Num(41))),
           Std("println", <<MemberAccess(V("o"), "x")>>)>>, "done", "42\n"),
    Case(<<Let("i", Num(0)),
           WhileStatement(BinaryOp(V("i"), "Less", Num(3)),
               Block(<<Show(V("i")),
                       Assign(V("i"), BinaryOp(V("i"), "Plus", Num(1)))>>)),
           Std("println", <<Str("")>>)>>, "done", "012\n") >>

(* bounds of the generated program families *)
MaxCalls == 3
MaxDepth == 3
MaxArgs == 3
MaxOps == 2

RECURSIVE Digits(_), Repeat(_, _), Nest(_)
Digits(n) == IF n = 0 THEN "" ELSE Digits(n - 1) \o ToString(n)
Repeat(stmt, n) == IF n = 0 THEN <<>> ELSE Append(Repeat(stmt, n - 1), stmt)

(* a counter closure made by mk(), called n times, each result printed *)
CounterProgram(n) ==
    <<Fn("mk", <<>>,
         <<Let("c", Num(0)),
           ReturnStatement(Lambda(<<>>,
               <<Assign(V("c"), BinaryOp(V("c"), "Plus", Num(1))),
                 ReturnStatement(V("c"))>>))>>),
      Let("f", Invoke("mk", <<>>))>> \o Repeat(Show(Invoke("f", <<>>)), n)

ClosureCases == <<
    (* lexical, not dynamic: g sees the x of its declaration site *)
    Case(<<Let("x", Num(1)),
           Fn("g", <<>>, <<ReturnStatement(V("x"))>>),
           Fn("h", <<>>, <<Let("x", Num(2)), ReturnStatement(Invoke("g", <<>>))>>),
           Show(Invoke("h", <<>>))>>, "done", "1"),
    (* an assignment by the outer code is seen by a later call *)
    Case(<<Let("x", Num(1)),
           Fn("g", <<>>, <<ReturnStatement(V("x"))>>),
           Assign(V("x"), Num(5)),
           Show(Invoke("g", <<>>))>>, "done", "5"),
    (* two closures of two mk() calls count separately *)
    Case(CounterProgram(2) \o
         <<Let("g", Invoke("mk", <<>>)), Show(Invoke("g", <<>>)),
           Show(Invoke("f", <<>>))>>, "done", "1213") >>

(* `return 7;` under d levels of Block, If and While, a marker after each *)
Nest(d) ==
    IF d = 0 THEN ReturnStatement(Num(7))
    ELSE LET inner == Block(<<Nest(d - 1), Show(Str("x"))>>)
         IN  CASE d % 3 = 1 -> inner
               [] d % 3 = 2 -> IfStatement(BooleanLiteral(TRUE), inner, <<>>)
               [] OTHER -> WhileStatement(BooleanLiteral(TRUE), inner)

ReturnProgram(d) ==
    <<Fn("f", <<>>, <<Nest(d), Show(Str("y"))>>),
      Fn("g", <<>>, <<Num(1)>>),
      Show(Invoke("f", <<>>)), Show(Invoke("g", <<>>))>>

RECURSIVE Arguments(_)
Arguments(n) == IF n = 0 THEN <<>> ELSE Append(Arguments(n - 1), Num(n))

(* f has two parameters and is called with n arguments *)
ArityProgram(n) ==
    <<Num(0), Fn("f", <<"a", "b">>, <<ReturnStatement(V("a"))>>),
      Invoke("f", Arguments(n))>>

AssignCases == <<
    Case(<<Let("x", Num(1)), Block(<<Assign(V("x"), Num(2))>>), Show(V("x"))>>,
         "done", "2"),
    Case(<<Let("x", Num(1)),
           Block(<<Let("x", Num(2)), Assign(V("x"), Num(3)), Show(V("x"))>>),
           Show(V("x"))>>, "done", "31"),
    Case(<<Let("x", Num(1)),
           Fn("f", <<>>, <<Let("z", Num(0)),
                           Assign(V("x"), BinaryOp(V("x"), "Plus", Num(1)))>>),
           Invoke("f", <<>>), Show(V("x"))>>, "done", "2"),
    Case(<<Let("x", Num(1)), Block(<<Assign(V("y"), Num(2))>>), Show(V("x"))>>,
         "error", "") >>

MemberCases == <<
    Case(<<Let("o", ObjectLiteral(<< <<"x", Num(1)>>, <<"z", Num(3)>> >>)),
           Assign(MemberAccess(V("o"), "x"), Num(2)),
           Show(MemberAccess(V("o"), "x")), Show(MemberAccess(V("o"), "z"))>>,
         "done", "23"),
    Case(<<Let("o", ObjectLiteral(<< <<"x", Num(1)>> >>)),
           Assign(MemberAccess(V("o"), "y"), Num(2)),
           Show(MemberAccess(V("o"), "x")), Show(MemberAccess(V("o"), "y"))>>,
         "done", "12"),
    Case(<<Let("o", ObjectLiteral(<< <<"x", Num(1)>> >>)),
           Assign(MemberAccess(V("o"), "x"),
                  BinaryOp(MemberAccess(V("o"), "x"), "Plus", Num(41))),
           Show(MemberAccess(V("o"), "x"))>>, "done", "42"),
    Case(<<Let("n", Num(1)), Assign(MemberAccess(V("n"), "x"), Num(2))>>, "error", "") >>

(* push, pop, set and remove through either name of one array *)
SharedOps == <<
    MethodCall(V("a"), "push", <<Num(2)>>), MethodCall(V("b"), "push", <<Num(3)>>),
    MethodCall(V("a"), "pop", <<>>), MethodCall(V("b"), "pop", <<>>),
    MethodCall(V("a"), "set", <<Num(0), Num(9)>>),
    MethodCall(V("b"), "set", <<Num(0), Num(8)>>),
    MethodCall(V("a"), "remove", <<Num(0)>>), MethodCall(V("b"), "remove", <<Num(0)>>) >>

SharedProgram(ops) ==
    <<Let("a", ArrayLiteral(<<Num(1)>>)), Let("b", V("a"))>> \o
    [i \in DOMAIN ops |-> SharedOps[ops[i]]] \o
    <<Show(MethodCall(V("a"), "length", <<>>)), Show(MethodCall(V("b"), "length", <<>>))>>

(* the values of a condition, with the truthiness the language gives them *)
TruthValue(pre, x, truthy) == [pre |-> pre, x |-> x, truthy |-> truthy]
TruthValues == <<
    TruthValue(<<>>, BooleanLiteral(TRUE), TRUE),
    TruthValue(<<>>, BooleanLiteral(FALSE), FALSE),
    TruthValue(<<>>, Num(0), FALSE),
    TruthValue(<<>>, Num(1), TRUE),
    TruthValue(<<>>, Str(""), FALSE),
    TruthValue(<<>>, Str("a"), TRUE),
    TruthValue(<<>>, NullLiteral, FALSE),
    TruthValue(<<>>, ArrayLiteral(<<>>), TRUE),
    TruthValue(<<>>, ObjectLiteral(<<>>), TRUE),
    TruthValue(<<Fn("g", <<>>, <<>>)>>, V("g"), TRUE) >>

(* `if (x) A else B`; style 1 prints through std, style 2 through the VM's  *)
(* print with a value under the callee                                      *)
TruthyProgram(i, style) ==
    LET out(s) == IF style = 1 THEN Show(Str(s)) ELSE Invoke("print", <<Str(s)>>)
    IN  (IF style = 1 THEN <<>> ELSE <<Num(0)>>) \o TruthValues[i].pre \o
        <<IfStatement(TruthValues[i].x, Block(<<out("A")>>), <<Block(<<out("B")>>)>>)>>

(* `x && f()` (op 1) and `x || f()` (op 2), f printing when it is called *)
ShortCircuitProgram(i, op) ==
    TruthValues[i].pre \o
    <<Fn("f", <<>>, <<Show(Str("f")), ReturnStatement(BooleanLiteral(TRUE))>>),
      BinaryOp(TruthValues[i].x, IF op = 1 THEN "And" ELSE "Or", Invoke("f", <<>>))>>

ScopeCases == <<
    Case(<<Block(<<Let("y", Num(1)), Show(V("y"))>>), Show(V("y"))>>, "error", "1"),
    Case(<<Let("x", Num(1)), Block(<<Let("x", Num(2)), Show(V("x"))>>), Show(V("x"))>>,
         "done", "21"),
    Case(<<Let("x", Num(1)),
           Fn("f", <<"x">>, <<Let("z", Num(3)),
                              Block(<<WhileStatement(BooleanLiteral(TRUE),
                                        Block(<<ReturnStatement(V("x"))>>))>>)>>),
           Show(Invoke("f", <<Num(2)>>)), Show(V("x"))>>, "done", "21"),
    Case(<<Fn("f", <<>>, <<Let("z", Num(3)), ReturnStatement(V("z"))>>),
           Show(Invoke("f", <<>>)), Show(V("z"))>>, "error", "3") >>


(* programs that reach the remaining arms of evaluate_node *)
MiscPrograms == <<
    <<ForStatement(Let("i", Num(0)), BinaryOp(V("i"), "Less", Num(1)),
                   Assign(V("i"), Num(1)), Block(<<>>))>>,
    <<Let("n", Num(1)), Invoke("n", <<>>)>>,
    <<Show(UnaryOp("Minus", Num(2))), Show(UnaryOp("Bang", BooleanLiteral(TRUE)))>>,
    <<Expression(Num(1)), Show(ObjectLiteral(<< <<"x", Num(1)>>, <<"y", Str("s")>> >>))>>,
    <<Show(MethodCall(Str("ab"), "length", <<>>)),
      Show(MethodCall(Num(1), "to_string", <<>>)),
      Show(ArrayLiteral(<<Num(1), ArrayLiteral(<<>>)>>))>>,
    <<Show(BinaryOp(BinaryOp(Num(6), "BitAnd", Num(3)), "Plus",
                     BinaryOp(Num(6), "BitOr", Num(3))))>> >>

(* programs written for the VM: its print is a global, and a call needs a   *)
(* value under the callee                                                   *)
VmPrograms == <<
    <<Num(0), Let("i", Num(0)),
      WhileStatement(BinaryOp(V("i"), "Less", Num(2)),
          Block(<<Invoke("print", <<V("i")>>),
                  Assign(V("i"), BinaryOp(V("i"), "Plus", Num(1)))>>))>>,
    <<Num(0), Fn("sq", <<"x">>, <<ReturnStatement(BinaryOp(V("x"), "Star", V("x")))>>),
      Invoke("sq", <<Num(3)>>)>>,
    <<Fn("sq", <<"x">>, <<ReturnStatement(V("x"))>>),
      Invoke("println", <<Invoke("sq", <<Num(3)>>)>>)>>,
    <<Let("o", ObjectLiteral(<< <<"x", Num(1)>> >>)), MemberAccess(V("o"), "x"),
      Assign(MemberAccess(V("o"), "y"), Num(5)), MemberAccess(V("o"), "z")>>,
    <<Let("a", ArrayLiteral(<<Num(1), Num(2)>>)), Num(0),
      MethodCall(V("a"), "length", <<>>)>>,
    <<UnaryOp("Minus", Num(2)), BinaryOp(Str("a"), "Plus", Num(1))>>,
    <<BinaryOp(BooleanLiteral(TRUE), "And", BooleanLiteral(FALSE))>>,
    <<Num(0), Fn("f", <<>>, <<Num(1)>>), Invoke("f", <<>>), Invoke("print", <<Str("z")>>)>>,
    <<Invoke("print", <<Str("z")>>)>> >>

(* Functions handed to VM::run directly: instructions the code generator    *)
(* never emits                                                              *)
BytecodePrograms == <<
    VmFunction(<<[op |-> "LoadConst", index |-> 0], [op |-> "LoadConst", index |-> 1],
                 [op |-> "BuildArray", count |-> 2], [op |-> "Duplicate"],
                 [op |-> "Duplicate"], [op |-> "GetProp", name |-> "push"],
                 [op |-> "LoadConst", index |-> 0], [op |-> "Call", arg_count |-> 1],
                 [op |-> "LoadVar", name |-> "print"], [op |-> "Jump", position |-> 10],
                 [op |-> "StoreVar", name |-> "r"], [op |-> "Call", arg_count |-> 0]>>,
               <<Number(1), Number(2)>>, <<>>, <<>>),
    VmFunction(<<[op |-> "LoadConst", index |-> 0], [op |-> "LoadConst", index |-> 1],
                 [op |-> "Mod"], [op |-> "Return"]>>,
               <<Number(-7), Number(3)>>, <<>>, <<>>),
    VmFunction(<<[op |-> "Duplicate"]>>, <<>>, <<>>, <<>>),
    VmFunction(<<[op |-> "LoadConst", index |-> 0], [op |-> "Not"]>>,
               <<Boolean(TRUE)>>, <<>>, <<>>),
    VmFunction(<<[op |-> "LoadConst", index |-> 1]>>, <<Null>>, <<>>, <<>>),
    VmFunction(<<[op |-> "BuildArray", count |-> 1]>>, <<>>, <<>>, <<>>) >>

(* token sequences handed to parse(): lexemes laid out on one line, one     *)
(* column apart, closed by EOF                                              *)
Lexeme(kind) ==
    CASE kind = "Let" -> <<"l", "e", "t">> [] kind = "Function" -> <<"f", "n">>
      [] kind = "If" -> <<"i", "f">> [] kind = "Else" -> <<"e", "l", "s", "e">>
      [] kind = "Return" -> <<"r", "e", "t", "u", "r", "n">>
      [] kind = "Null" -> <<"n", "u", "l", "l">>
      [] kind = "True" -> <<"t", "r", "u", "e">>
      [] kind = "False" -> <<"f", "a", "l", "s", "e">>
      [] kind = "While" -> <<"w", "h", "i", "l", "e">>
      [] kind = "For" -> <<"f", "o", "r">>
      [] kind = "Plus" -> <<"+">> [] kind = "Minus" -> <<"-">> [] kind = "Star" -> <<"*">>
      [] kind = "Slash" -> <<"/">> [] kind = "Mod" -> <<"%">> [] kind = "Bang" -> <<"!">>
      [] kind = "LParen" -> <<"(">> [] kind = "RParen" -> <<")">>
      [] kind = "LBrack" -> <<"[">> [] kind = "RBrack" -> <<"]">>
      [] kind = "LBrace" -> <<"{">> [] kind = "RBrace" -> <<"}">>
      [] kind = "Equal" -> <<"=", "=">> [] kind = "NotEqual" -> <<"!", "=">>
      [] kind = "Greater" -> <<">">> [] kind = "Less" -> <<"<">>
      [] kind = "GreaterEqual" -> <<">", "=">> [] kind = "LessEqual" -> <<"<", "=">>
      [] kind = "Assign" -> <<"=">> [] kind = "SemiColon" -> <<";">>
      [] kind = "Comma" -> <<",">> [] kind = "Dot" -> <<".">> [] kind = "Colon" -> <<":">>
      [] kind = "And" -> <<"&", "&">> [] kind = "Or" -> <<"|", "|">>
      [] kind = "BitAnd" -> <<"&">> [] kind = "BitOr" -> <<"|">>
      [] kind = "BitXor" -> <<"^">> [] kind = "Inc" -> <<"+", "+">>
      [] kind = "Dec" -> <<"-", "-">> [] kind = "EOF" -> <<>>

K(kind) == [kind |-> kind, value |-> Lexeme(kind)]
Id(name) == [kind |-> "Identifier", value |-> name]
Lit(chars) == [kind |-> "Number", value |-> chars]
Quoted(chars) == [kind |-> "String", value |-> chars]
DecimalChars(n) == <<(<<"0", "1", "2", "3", "4", "5", "6", "7", "8", "9">>)[n + 1]>>

Located(toks) ==
    [i \in 1..(Len(toks) + 1) |->
        IF i <= Len(toks) THEN Token_new(toks[i].kind, toks[i].value, 1, i)
        ELSE Token_new("EOF", <<>>, 1, i)]

MaxIterations == 3

(* for let i = 0; i < n; i = i + 1; { std.print(i); } *)
ForTokens(n) ==
    Located(<<K("For"), K("Let"), Id(<<"i">>), K("Assign"), Lit(<<"0">>), K("SemiColon"),
              Id(<<"i">>), K("Less"), Lit(DecimalChars(n)), K("SemiColon"),
              Id(<<"i">>), K("Assign"), Id(<<"i">>), K("Plus"), Lit(<<"1">>),
              K("SemiColon"),
              K("LBrace"), Id(<<"s", "t", "d">>), K("Dot"), Id(<<"p", "r", "i", "n", "t">>),
              K("LParen"), Id(<<"i">>), K("RParen"), K("SemiColon"), K("RBrace")>>)

(* the statements parse() returns for ForTokens(n) *)
ForProgram(n) ==
    <<ForStatement(Let("i", Num(0)),
                   BinaryOp(V("i"), "Less", Num(n)),
                   BinaryOp(V("i"), "Assign", BinaryOp(V("i"), "Plus", Num(1))),
                   Block(<<Show(V("i"))>>))>>

RECURSIVE ForOutput(_)
ForOutput(n) == IF n = 0 THEN "" ELSE ForOutput(n - 1) \o ToString(n - 1)

MaxLen == 2

IndexMethods == <<"get", "set", "remove">>
IndexOf(p) == p.arg[3] - (MaxLen + 1)
Signed(i) == IF i < 0 THEN UnaryOp("Minus", Num(0 - i)) ELSE Num(i)
Elements(n) == [k \in 1..n |-> Num(k)]

(* let a = [1, .., n]; std.print(a.get(i));  or  a.set(i, 9);  or  a.remove(i); *)
IndexProgram(m, n, i) ==
    <<Let("a", ArrayLiteral(Elements(n))),
      IF IndexMethods[m] = "get" THEN Show(MethodCall(V("a"), "get", <<Signed(i)>>))
      ELSE IF IndexMethods[m] = "set" THEN MethodCall(V("a"), "set", <<Signed(i), Num(9)>>)
      ELSE MethodCall(V("a"), "remove", <<Signed(i)>>)>>

(* programs for the VM about the environment of a call; a call needs a     *)
(* value under the callee                                                  *)
(* 1: let x = a; fn f() { return x; } fn g() { let x = b; 0; return f(); } *)
(*    0; g()                                                               *)
(* 2: let x = a; fn f() { x = b; return 0; } 0; f(); x                     *)
LexicalProgram(a, b, form) ==
    IF form = 1
    THEN <<Let("x", Num(a)),
           Fn("f", <<>>, <<ReturnStatement(V("x"))>>),
           Fn("g", <<>>, <<Let("x", Num(b)), Num(0),
                           ReturnStatement(Invoke("f", <<>>))>>),
           Num(0), Invoke("g", <<>>)>>
    ELSE <<Let("x", Num(a)),
           Fn("f", <<>>, <<Assign(V("x"), Num(b)), ReturnStatement(Num(0))>>),
           Num(0), Invoke("f", <<>>), V("x")>>

(* `let o = {x: a}; o.x = o.x + b; o.x` (form 1) and                        *)
(* `let o = {x: a}; o.x = b; o.x` (form 2)                                  *)
SetPropProgram(a, b, form) ==
    <<Let("o", ObjectLiteral(<< <<"x", Num(a)>> >>)),
      Assign(MemberAccess(V("o"), "x"),
             IF form = 1 THEN BinaryOp(MemberAccess(V("o"), "x"), "Plus", Num(b))
             ELSE Num(b)),
      MemberAccess(V("o"), "x")>>

MaxElements == 2

(* the element expressions of an array literal: a constant, a variable, an  *)
(* arithmetic expression and a call                                         *)
ElementKinds == 1..4

Element(kind) ==
    CASE kind = 1 -> Num(1)
      [] kind = 2 -> V("v")
      [] kind = 3 -> BinaryOp(V("v"), "Plus", Num(1))
      [] kind = 4 -> Invoke("four", <<>>)

(* `let v = 2; fn four() { return 4; } 0; [e1, ..., en]` *)
LiteralProgram(kinds) ==
    <<Let("v", Num(2)), Fn("four", <<>>, <<ReturnStatement(Num(4))>>), Num(0),
      ArrayLiteral([i \in DOMAIN kinds |-> Element(kinds[i])])>>

(* n assignments whose right-hand side has a side effect, or whose target  *)
(* does not exist yet:                                                      *)
(*   1: `fn say() { print(7); return 1; } let x = 0;` then `x = say();`     *)
(*   2: `fn say() ... let o = {m: 0};` then `o.m = say();`                  *)
(*   3: `let a = [1, .., 2 * MaxCalls]; let x = 0;` then `x = a.pop();`,    *)
(*      closed by `print(a.length())`                                       *)
(*   4: `let f = mk(); let x = 0;` then `x = f();`, closed by `print(x)`,   *)
(*      f the counter closure of CounterProgram                             *)
(*   5: `let o = {x: 1};` then `o.y = 7;`, closed by `print(o.y)`           *)
OnceForms == 1..5

OnceProgram(form, n) ==
    LET say == Fn("say", <<>>, <<Show(Num(7)), ReturnStatement(Num(1))>>)
    IN  CASE form = 1 ->
               <<say, Let("x", Num(0))>> \o Repeat(Assign(V("x"), Invoke("say", <<>>)), n)
          [] form = 2 ->
               <<say, Let("o", ObjectLiteral(<< <<"m", Num(0)>> >>))>>
               \o Repeat(Assign(MemberAccess(V("o"), "m"), Invoke("say", <<>>)), n)
          [] form = 3 ->
               <<Let("a", ArrayLiteral(Elements(2 * MaxCalls))), Let("x", Num(0))>>
               \o Repeat(Assign(V("x"), MethodCall(V("a"), "pop", <<>>)), n)
               \o <<Show(MethodCall(V("a"), "length", <<>>))>>
          [] form = 4 ->
               SubSeq(CounterProgram(0), 1, 2) \o <<Let("x", Num(0))>>
               \o Repeat(Assign(V("x"), Invoke("f", <<>>)), n) \o <<Show(V("x"))>>
          [] form = 5 ->
               <<Let("o", ObjectLiteral(<< <<"x", Num(1)>> >>))>>
               \o Repeat(Assign(MemberAccess(V("o"), "y"), Num(7)), n)
               \o <<Show(MemberAccess(V("o"), "y"))>>

(* `0; fn f() { 1; .. 1; } f(); 0; print("z")`: f has n statements and no *)
(* return statement                                                       *)
ImplicitProgram(n) ==
    <<Num(0), Fn("f", <<>>, Repeat(Num(1), n)), Invoke("f", <<>>),
      Num(0), Invoke("print", <<Str("z")>>)>>

MaxNest == 3

(* nestings of If and While, outermost first; the statement nested in the   *)
(* next level stands in the then branch (1: no else, 2: with an else), in   *)
(* the else branch (3), or in the body of a While (4)                       *)
RECURSIVE Nesting(_, _)
Nesting(shape, i) ==
    IF i > Len(shape) THEN Num(7)
    ELSE LET inner == Nesting(shape, i + 1)
             c == BooleanLiteral(FALSE)
         IN  CASE shape[i] = 1 -> IfStatement(c, Block(<<Num(7), inner>>), <<>>)
               [] shape[i] = 2 -> IfStatement(c, Block(<<inner>>), <<Block(<<Num(7)>>)>>)
               [] shape[i] = 3 -> IfStatement(c, Block(<<Num(7)>>), <<inner>>)
               [] shape[i] = 4 -> WhileStatement(c, Block(<<inner, Num(7)>>))

JumpsProgram(shape) == <<Num(0), Nesting(shape, 1), Num(7)>>

MaxOperand == 3

BitwiseOps == <<"BitAnd", "BitOr">>
(* an operand: a Number 0 .. MaxOperand, or a String *)
Operand(k) == IF k <= MaxOperand THEN Num(k) ELSE Str("s")

(* std.print(a & b);  std.print(a | b); *)
BitwiseProgram(op, a, b) == <<Show(BinaryOp(Operand(a), BitwiseOps[op], Operand(b)))>>

(* the binary operators of get_operator_precedence *)
InfixOps == <<"Assign", "Or", "And", "BitAnd", "BitXor", "BitOr", "Equal", "NotEqual",
              "Less", "LessEqual", "Greater", "GreaterEqual", "Plus", "Minus", "Star",
              "Mod", "Slash">>

InfixOperands == << <<Id(<<"a">>), Id(<<"b">>), Id(<<"c">>)>>,
                    <<Lit(<<"1">>), Lit(<<"2">>), Lit(<<"3">>)>> >>

(* a o1 b o2 c ;   and   1 o1 2 o2 3 *)
InfixTokens(o1, o2, form) ==
    LET x == InfixOperands[form]
    IN  Located(<<x[1], K(InfixOps[o1]), x[2], K(InfixOps[o2]), x[3]>>
                \o (IF form = 1 THEN <<K("SemiColon")>> ELSE <<>>))

MaxTokens == 4

(* the tokens the bounded token sequences are drawn from *)
TokenAlphabet == <<Id(<<"a">>), Lit(<<"1">>), K("Assign"), K("SemiColon"), K("LParen"),
                   K("RParen"), K("LBrace"), K("LBrack"), K("Return")>>

TokenSequence(arg) == Located([i \in DOMAIN arg |-> TokenAlphabet[arg[i]]])

MaxText == 3

(* the characters the bounded texts are drawn from, one alphabet per text *)
Alphabets == << <<"\"", "\\", "n", "a">>,
                <<"/", "*", "\n", "a">>,
                <<"1", ".", "a", " ">>,
                <<"&", "|", "=", "!">>,
                <<"+", ";", "#", "'">> >>

TextOf(arg) == [i \in 1..(Len(arg) - 1) |-> Alphabets[arg[1]][arg[i + 1]]]

TokenFamilies == {"infix", "tokens"}
TextFamilies == {"text"}

(* the text handed to tokenize() *)
TextInput(p) == TextOf(p.arg)

(* the tokens handed to parse() when the run starts from a token sequence *)
TokenInput(p) ==
    CASE p.name = "infix" -> InfixTokens(p.arg[1], p.arg[2], p.arg[3])
      [] p.name = "tokens" -> TokenSequence(p.arg)

Family(name, args) == {[name |-> name, arg |-> a] : a \in args}
Singles(S) == {<<i>> : i \in S}

(* the inputs of a run *)
Programs ==
    Family("scenario", Singles(DOMAIN Scenarios))
    \cup Family("counter", Singles(1..MaxCalls))
    \cup Family("closure", Singles(DOMAIN ClosureCases))
    \cup Family("return", Singles(0..MaxDepth))
    \cup Family("arity", Singles(0..MaxArgs))
    \cup Family("assign", Singles(DOMAIN AssignCases))
    \cup Family("member", Singles(DOMAIN MemberCases))
    \cup Family("shared", UNION {[1..n -> DOMAIN SharedOps] : n \in 0..MaxOps})
    \cup Family("truthy", (DOMAIN TruthValues) \X {1, 2})
    \cup Family("shortcircuit", (DOMAIN TruthValues) \X {1, 2})
    \cup Family("scope", Singles(DOMAIN ScopeCases))
    \cup Family("misc", Singles(DOMAIN MiscPrograms))
    \cup Family("vm", Singles(DOMAIN VmPrograms))
    \cup Family("bytecode", Singles(DOMAIN BytecodePrograms))
    \cup Family("for", Singles(0..MaxIterations))
    \cup Family("bitwise", (DOMAIN BitwiseOps) \X (0..(MaxOperand + 1))
                                \X (0..(MaxOperand + 1)))
    \cup Family("infix", (DOMAIN InfixOps) \X (DOMAIN InfixOps) \X (DOMAIN InfixOperands))
    \cup Family("tokens", UNION {[1..n -> DOMAIN TokenAlphabet] : n \in 0..MaxTokens})
    \cup Family("text", UNION {{<<a>> \o t : t \in [1..n -> DOMAIN Alphabets[a]]} :
                                    a \in DOMAIN Alphabets, n \in 0..MaxText})
    \cup Family("lexical", (0..MaxOperand) \X (0..MaxOperand) \X {1, 2})
    \cup Family("jumps", UNION {[1..n -> 1..4] : n \in 0..MaxNest})
    \cup Family("setprop", (0..MaxOperand) \X (0..MaxOperand) \X {1, 2})
    \cup Family("literal", UNION {[1..n -> ElementKinds] : n \in 0..MaxElements})
    \cup Family("once", OnceForms \X (1..MaxCalls))
    \cup Family("implicit", Singles(0..MaxDepth))
    \cup Family("index", (DOMAIN IndexMethods) \X (0..MaxLen) \X (0..(2 * MaxLen + 2)))

IsBytecode(p) == p.name = "bytecode"
IsSource(p) == ~IsBytecode(p) /\ p.name \notin TokenFamilies \cup TextFamilies

Compiled(p) == BytecodePrograms[p.arg[1]]

Cases(name) ==
    CASE name = "scenario" -> Scenarios [] name = "closure" -> ClosureCases
      [] name = "assign" -> AssignCases [] name = "member" -> MemberCases
      [] name = "scope" -> ScopeCases

(* Program(statements): the AST handed to evaluate() and to generate_bytecode *)
Statements(p) ==
    CASE p.name = "counter" -> CounterProgram(p.arg[1])
      [] p.name = "return" -> ReturnProgram(p.arg[1])
      [] p.name = "arity" -> ArityProgram(p.arg[1])
      [] p.name = "shared" -> SharedProgram(p.arg)
      [] p.name = "truthy" -> TruthyProgram(p.arg[1], p.arg[2])
      [] p.name = "shortcircuit" -> ShortCircuitProgram(p.arg[1], p.arg[2])
      [] p.name = "misc" -> MiscPrograms[p.arg[1]]
      [] p.name = "vm" -> VmPrograms[p.arg[1]]
      [] p.name = "for" -> ForProgram(p.arg[1])
      [] p.name = "lexical" -> LexicalProgram(p.arg[1], p.arg[2], p.arg[3])
      [] p.name = "jumps" -> JumpsProgram(p.arg)
      [] p.name = "setprop" -> SetPropProgram(p.arg[1], p.arg[2], p.arg[3])
      [] p.name = "literal" -> LiteralProgram(p.arg)
      [] p.name = "once" -> OnceProgram(p.arg[1], p.arg[2])
      [] p.name = "implicit" -> ImplicitProgram(p.arg[1])
      [] p.name = "bitwise" -> BitwiseProgram(p.arg[1], p.arg[2], p.arg[3])
      [] p.name = "index" -> IndexProgram(p.arg[1], p.arg[2], IndexOf(p))
      [] OTHER -> Cases(p.name)[p.arg[1]].statements

-----------------------------------------------------------------------------
(* The tree-walk evaluator: treewalk/evaluator.rs.                          *)
global_environment == 1

Top == tw_k[Len(tw_k)]
Rest == SubSeq(tw_k, 1, Len(tw_k) - 1)

Evaluating(kinds) ==
    /\ phase = "treewalk" /\ tw_status = "run"
    /\ tw_ctl.mode = "eval" /\ tw_ctl.node.kind \in kinds

Resuming(kind) ==
    /\ phase = "treewalk" /\ tw_status = "run"
    /\ tw_ctl.mode = "ret" /\ tw_k /= <<>> /\ Top.kind = kind

Eval(node, k) == tw_ctl' = [mode |-> "eval", node |-> node] /\ tw_k' = k
Yield(val, k) == tw_ctl' = [mode |-> "ret", val |-> val] /\ tw_k' = k

Running == UNCHANGED <<program, phase, tw_status, tw_error, tw_result, vm_vars, fe_vars>>

(* runtime_error(msg): panic!; also the panics raised by RefCell and indexing *)
Stop(status, msg) ==
    /\ tw_status' = status /\ tw_error' = msg
    /\ UNCHANGED <<program, phase, tw_ctl, tw_k, current_scope, tw_scopes, tw_arrs,
                   tw_objs, tw_out, tw_result, vm_vars, fe_vars>>

runtime_error(msg) == Stop("error", msg)

(* a helper's result becomes the value of the node, or ends the run *)
Finish(res, k) ==
    IF res.r = "ok"
    THEN /\ Yield(res.val, k) /\ Running
         /\ UNCHANGED <<current_scope, tw_scopes, tw_arrs, tw_objs, tw_out>>
    ELSE IF res.r = "error" THEN runtime_error(res.msg)
    ELSE Stop("unmodelled", "")

(* a RefCell of an Object is mutably borrowed while the right-hand side of a *)
(* member assignment is evaluated (evaluator.rs:346-348)                    *)
MutBorrowed(k, ref) ==
    \E i \in DOMAIN k : k[i].kind = "AssignInsert" /\ k[i].ref = ref

(* evaluate_program, lines 52-66: register std, start the statement loop *)
evaluate_program ==
    /\ phase = "start" /\ IsSource(program)
    /\ phase' = "treewalk"
    /\ tw_objs' = Append(tw_objs, [m \in std_methods |-> RustFunction(m)])
    /\ tw_scopes' = Scope_insert(tw_scopes, global_environment, "std",
                                 Object(Len(tw_objs) + 1))
    /\ IF Statements(program) = <<>>
       THEN /\ tw_status' = "done" /\ tw_result' = Null /\ UNCHANGED <<tw_ctl, tw_k>>
       ELSE /\ Eval(Statements(program)[1],
                    <<[kind |-> "Program", i |-> 1, sc |-> global_environment]>>)
            /\ UNCHANGED <<tw_status, tw_result>>
    /\ UNCHANGED <<program, current_scope, tw_arrs, tw_out, tw_error, vm_vars, fe_vars>>

(* evaluate_program, lines 67-73: the statement loop *)
ProgramLoop ==
    /\ Resuming("Program")
    /\ LET result == tw_ctl.val
           stmts == Statements(program)
       IN  IF result.t = "Return"
           THEN /\ tw_status' = "done" /\ tw_result' = result.val
                /\ UNCHANGED <<tw_ctl, tw_k>>
           ELSE IF Top.i < Len(stmts)
           THEN /\ Eval(stmts[Top.i + 1], <<[Top EXCEPT !.i = @ + 1]>>)
                /\ UNCHANGED <<tw_status, tw_result>>
           ELSE /\ tw_status' = "done" /\ tw_result' = result
                /\ UNCHANGED <<tw_ctl, tw_k>>
    /\ UNCHANGED <<program, phase, current_scope, tw_scopes, tw_arrs, tw_objs, tw_out,
                   tw_error, vm_vars, fe_vars>>

Pure == Running /\ UNCHANGED <<current_scope, tw_scopes, tw_arrs, tw_objs, tw_out>>

(* NumberLiteral, BooleanLiteral, NullLiteral, StringLiteral *)
EvalLiteral ==
    /\ Evaluating({"NumberLiteral", "BooleanLiteral", "NullLiteral", "StringLiteral"})
    /\ LET node == tw_ctl.node
       IN  Yield(CASE node.kind = "NumberLiteral" -> Number(node.n)
                   [] node.kind = "BooleanLiteral" -> Boolean(node.b)
                   [] node.kind = "NullLiteral" -> Null
                   [] node.kind = "StringLiteral" -> String(node.s), tw_k)
    /\ Pure

(* ObjectLiteral: evaluate the values in order, insert each under its key *)
ObjectLiteralStep(properties, i, obj, k) ==
    IF i < Len(properties)
    THEN /\ Eval(properties[i + 1][2],
                 Append(k, [kind |-> "ObjectLiteral", properties |-> properties,
                            i |-> i + 1, obj |-> obj, sc |-> current_scope]))
         /\ UNCHANGED tw_objs
    ELSE /\ tw_objs' = Append(tw_objs, obj)
         /\ Yield(Object(Len(tw_objs) + 1), k)

EvalObjectLiteral ==
    /\ Evaluating({"ObjectLiteral"})
    /\ ObjectLiteralStep(tw_ctl.node.properties, 0, <<>>, tw_k)
    /\ Running /\ UNCHANGED <<current_scope, tw_scopes, tw_arrs, tw_out>>

ResumeObjectLiteral ==
    /\ Resuming("ObjectLiteral")
    /\ ObjectLiteralStep(Top.properties, Top.i,
                         (Top.properties[Top.i][1] :> tw_ctl.val) @@ Top.obj, Rest)
    /\ Running /\ UNCHANGED <<current_scope, tw_scopes, tw_arrs, tw_out>>

(* ArrayLiteral: evaluate the elements in order *)
ArrayLiteralStep(values, i, arr, k) ==
    IF i < Len(values)
    THEN /\ Eval(values[i + 1],
                 Append(k, [kind |-> "ArrayLiteral", values |-> values, i |-> i + 1,
                            arr |-> arr, sc |-> current_scope]))
         /\ UNCHANGED tw_arrs
    ELSE /\ tw_arrs' = Append(tw_arrs, arr)
         /\ Yield(Array(Len(tw_arrs) + 1), k)

EvalArrayLiteral ==
    /\ Evaluating({"ArrayLiteral"})
    /\ ArrayLiteralStep(tw_ctl.node.values, 0, <<>>, tw_k)
    /\ Running /\ UNCHANGED <<current_scope, tw_scopes, tw_objs, tw_out>>

ResumeArrayLiteral ==
    /\ Resuming("ArrayLiteral")
    /\ ArrayLiteralStep(Top.values, Top.i, Append(Top.arr, tw_ctl.val), Rest)
    /\ Running /\ UNCHANGED <<current_scope, tw_scopes, tw_objs, tw_out>>

(* Variable: Scope::get on the current scope; a clone of an Rc shares the cell *)
VariableValue(found) == found[1]

EvalVariable ==
    /\ Evaluating({"Variable"})
    /\ LET found == Scope_get(tw_scopes, current_scope, tw_ctl.node.name)
       IN  IF found = <<>> THEN runtime_error("Undefined variable")
           ELSE Yield(VariableValue(found), tw_k) /\ Pure

(* VariableDeclaration: evaluate the initializer, insert into the current scope *)
EvalVariableDeclaration ==
    /\ Evaluating({"VariableDeclaration"})
    /\ Eval(tw_ctl.node.value,
            Append(tw_k, [kind |-> "VariableDeclaration", name |-> tw_ctl.node.name,
                          sc |-> current_scope]))
    /\ Pure

(* the fault of value semantics: `let` stores a copy of an Array *)
ResumeVariableDeclarationCopy ==
    /\ Resuming("VariableDeclaration")
    /\ IF tw_ctl.val.t = "Array"
       THEN /\ tw_arrs' = Append(tw_arrs, tw_arrs[tw_ctl.val.ref])
            /\ tw_scopes' = Scope_insert(tw_scopes, current_scope, Top.name,
                                         Array(Len(tw_arrs) + 1))
       ELSE /\ tw_scopes' = Scope_insert(tw_scopes, current_scope, Top.name, tw_ctl.val)
            /\ UNCHANGED tw_arrs
    /\ Yield(Null, Rest)
    /\ Running /\ UNCHANGED <<current_scope, tw_objs, tw_out>>

ResumeVariableDeclaration ==
    /\ Resuming("VariableDeclaration")
    /\ tw_scopes' = Scope_insert(tw_scopes, current_scope, Top.name, tw_ctl.val)
    /\ Yield(Null, Rest)
    /\ Running /\ UNCHANGED <<current_scope, tw_arrs, tw_objs, tw_out>>

(* Expression(expr) => self.evaluate_node(expr) *)
EvalExpression ==
    /\ Evaluating({"Expression"})
    /\ Eval(tw_ctl.node.expr, tw_k)
    /\ Pure

(* the fault of eager operands: the right operand is always evaluated *)
NeverShortCircuits(op, left_val) == FALSE

(* evaluate_binary_op, And / Or (lines 289-304): whether the left value alone *)
(* decides the result                                                       *)
ShortCircuits(op, left_val) ==
    IF op = "And" THEN ~is_truthy(left_val) ELSE is_truthy(left_val)

EvalAndOr ==
    /\ Evaluating({"BinaryOp"}) /\ tw_ctl.node.op \in {"And", "Or"}
    /\ Eval(tw_ctl.node.left,
            Append(tw_k, [kind |-> "AndOrLeft", op |-> tw_ctl.node.op,
                          right |-> tw_ctl.node.right, sc |-> current_scope]))
    /\ Pure

ResumeAndOrLeft ==
    /\ Resuming("AndOrLeft")
    /\ IF ShortCircuits(Top.op, tw_ctl.val)
       THEN Yield(Boolean(Top.op = "Or"), Rest)
       ELSE Eval(Top.right, Append(Rest, [kind |-> "AndOrRight", sc |-> current_scope]))
    /\ Pure

ResumeAndOrRight ==
    /\ Resuming("AndOrRight")
    /\ Yield(Boolean(is_truthy(tw_ctl.val)), Rest)
    /\ Pure

(* evaluate_binary_op, the `_` arm (lines 305-362): left, then right, then op *)
EvalBinaryOp ==
    /\ Evaluating({"BinaryOp"}) /\ tw_ctl.node.op \notin {"And", "Or"}
    /\ Eval(tw_ctl.node.left,
            Append(tw_k, [kind |-> "BinaryLeft", node |-> tw_ctl.node,
                          sc |-> current_scope]))
    /\ Pure

ResumeBinaryLeft ==
    /\ Resuming("BinaryLeft")
    /\ IF tw_ctl.val.t = "Return"
       THEN Yield(tw_ctl.val, Rest)
       ELSE Eval(Top.node.right,
                 Append(Rest, [kind |-> "BinaryRight", node |-> Top.node,
                               left_val |-> tw_ctl.val, sc |-> current_scope]))
    /\ Pure

(* lines 311-334, 356-360: every operator but Assign *)
ResumeBinaryRight ==
    /\ Resuming("BinaryRight")
    /\ tw_ctl.val.t = "Return" \/ Top.node.op /= "Assign"
    /\ IF tw_ctl.val.t = "Return"
       THEN Yield(tw_ctl.val, Rest) /\ Pure
       ELSE Finish(binary_op_value(Top.node.op, Top.left_val, tw_ctl.val), Rest)

(* lines 335-355: Assign, entered after both operands have been evaluated *)
ResumeBinaryRightAssign ==
    /\ Resuming("BinaryRight")
    /\ tw_ctl.val.t /= "Return" /\ Top.node.op = "Assign"
    /\ LET left == Top.node.left
       IN  CASE left.kind = "Variable" ->
                  /\ Eval(Top.node.right,
                          Append(Rest, [kind |-> "AssignVariable", name |-> left.name,
                                        sc |-> current_scope]))
                  /\ Pure
             [] left.kind = "MemberAccess" ->
                  /\ Eval(left.object,
                          Append(Rest, [kind |-> "AssignObject", member |-> left.member,
                                        right |-> Top.node.right, sc |-> current_scope]))
                  /\ Pure
             [] OTHER -> runtime_error("Left side of assignment must be a variable")

(* the fault of an assignment that declares: insert into the current scope *)
AssignInCurrentScope(scopes, scope, name, value) ==
    [ok |-> TRUE, scopes |-> Scope_insert(scopes, scope, name, value)]

(* line 338: the store of `x = e` *)
AssignStore(scopes, scope, name, value) == Scope_set(scopes, scope, name, value)

ResumeAssignVariable ==
    /\ Resuming("AssignVariable")
    /\ LET set == AssignStore(tw_scopes, current_scope, Top.name, tw_ctl.val)
       IN  IF ~set.ok THEN runtime_error("Undefined variable")
           ELSE /\ tw_scopes' = set.scopes
                /\ Yield(tw_ctl.val, Rest)
                /\ Running /\ UNCHANGED <<current_scope, tw_arrs, tw_objs, tw_out>>

(* lines 344-352: the receiver; borrow_mut() is taken before the right-hand *)
(* side is evaluated                                                        *)
ResumeAssignObject ==
    /\ Resuming("AssignObject")
    /\ LET obj_val == tw_ctl.val
       IN  IF obj_val.t /= "Object"
           THEN runtime_error("Attempted member access on non-object value")
           ELSE IF MutBorrowed(tw_k, obj_val.ref)
           THEN runtime_error("already borrowed: BorrowMutError")
           ELSE /\ Eval(Top.right,
                        Append(Rest, [kind |-> "AssignInsert", ref |-> obj_val.ref,
                                      member |-> Top.member, sc |-> current_scope]))
                /\ Pure

(* line 348: insert(member, value) *)
ResumeAssignInsert ==
    /\ Resuming("AssignInsert")
    /\ tw_objs' = [tw_objs EXCEPT ![Top.ref] = (Top.member :> tw_ctl.val) @@ @]
    /\ Yield(Null, Rest)
    /\ Running /\ UNCHANGED <<current_scope, tw_scopes, tw_arrs, tw_out>>

(* evaluate_unary_op *)
EvalUnaryOp ==
    /\ Evaluating({"UnaryOp"})
    /\ Eval(tw_ctl.node.operand,
            Append(tw_k, [kind |-> "UnaryOp", op |-> tw_ctl.node.op, sc |-> current_scope]))
    /\ Pure

ResumeUnaryOp ==
    /\ Resuming("UnaryOp")
    /\ IF tw_ctl.val.t = "Return"
       THEN Yield(tw_ctl.val, Rest) /\ Pure
       ELSE Finish(unary_op_value(Top.op, tw_ctl.val), Rest)

(* MemberAccess, lines 109-127 *)
EvalMemberAccess ==
    /\ Evaluating({"MemberAccess"})
    /\ Eval(tw_ctl.node.object,
            Append(tw_k, [kind |-> "MemberAccess", member |-> tw_ctl.node.member,
                          sc |-> current_scope]))
    /\ Pure

ResumeMemberAccess ==
    /\ Resuming("MemberAccess")
    /\ LET obj_val == tw_ctl.val
       IN  IF obj_val.t = "Object"
           THEN IF MutBorrowed(tw_k, obj_val.ref)
                THEN runtime_error("already mutably borrowed: BorrowError")
                ELSE IF Top.member \in DOMAIN tw_objs[obj_val.ref]
                THEN Yield(tw_objs[obj_val.ref][Top.member], Rest) /\ Pure
                ELSE runtime_error("Property not found in object")
           ELSE Yield(Method(obj_val, Top.member), Rest) /\ Pure

(* the fault of a Block that does not look for a Return *)
BlockNeverBreaks(result) == FALSE

(* Block, lines 128-143 *)
BlockBreaks(result) == result.t = "Return"

(* the fault of a Block that does not restore the scope *)
StayInChildScope(previous_scope, scope) == scope

BlockExitScope(previous_scope, scope) == previous_scope

EvalBlock ==
    /\ Evaluating({"Block"})
    /\ LET statements == tw_ctl.node.statements
           previous_scope == current_scope
           child == Len(tw_scopes) + 1
       IN  /\ tw_scopes' = Append(tw_scopes, Scope_new(previous_scope))
           /\ IF statements = <<>>
              THEN /\ current_scope' = BlockExitScope(previous_scope, child)
                   /\ Yield(Null, tw_k)
              ELSE /\ current_scope' = child
                   /\ Eval(statements[1],
                           Append(tw_k, [kind |-> "Block", statements |-> statements,
                                         i |-> 1, previous_scope |-> previous_scope,
                                         sc |-> child]))
    /\ Running /\ UNCHANGED <<tw_arrs, tw_objs, tw_out>>

ResumeBlock ==
    /\ Resuming("Block")
    /\ LET result == tw_ctl.val
       IN  IF BlockBreaks(result) \/ Top.i = Len(Top.statements)
           THEN /\ current_scope' = BlockExitScope(Top.previous_scope, current_scope)
                /\ Yield(result, Rest)
           ELSE /\ Eval(Top.statements[Top.i + 1], Append(Rest, [Top EXCEPT !.i = @ + 1]))
                /\ UNCHANGED current_scope
    /\ Running /\ UNCHANGED <<tw_scopes, tw_arrs, tw_objs, tw_out>>

(* IfStatement, lines 144-161: the branch a condition value selects *)
IfBranch(cond) ==
    IF cond.t = "Boolean" THEN (IF cond.b THEN "consequence" ELSE "alternative")
    ELSE "error"

EvalIfStatement ==
    /\ Evaluating({"IfStatement"})
    /\ Eval(tw_ctl.node.condition,
            Append(tw_k, [kind |-> "IfStatement", node |-> tw_ctl.node,
                          sc |-> current_scope]))
    /\ Pure

ResumeIfStatement ==
    /\ Resuming("IfStatement")
    /\ LET branch == IfBranch(tw_ctl.val)
       IN  CASE branch = "consequence" -> Eval(Top.node.consequence, Rest) /\ Pure
             [] branch = "alternative" ->
                  /\ IF Top.node.alternative /= <<>>
                     THEN Eval(Top.node.alternative[1], Rest)
                     ELSE Yield(Null, Rest)
                  /\ Pure
             [] OTHER -> runtime_error("Condition must be a boolean")

(* FunctionDeclaration, lines 162-181 *)
EvalFunctionDeclaration ==
    /\ Evaluating({"FunctionDeclaration"})
    /\ LET node == tw_ctl.node
           func == Function(node.parameters, node.body, current_scope)
       IN  IF node.name /= <<>>
           THEN /\ tw_scopes' = Scope_insert(tw_scopes, current_scope, node.name[1], func)
                /\ Yield(Null, tw_k)
           ELSE /\ Yield(func, tw_k)
                /\ UNCHANGED tw_scopes
    /\ Running /\ UNCHANGED <<current_scope, tw_arrs, tw_objs, tw_out>>

(* WhileStatement, lines 182-191 *)
WhileBreaks(result) == result.t = "Return"

EvalWhileStatement ==
    /\ Evaluating({"WhileStatement"})
    /\ Eval(tw_ctl.node.condition,
            Append(tw_k, [kind |-> "WhileCondition", node |-> tw_ctl.node,
                          result |-> Null, sc |-> current_scope]))
    /\ Pure

ResumeWhileCondition ==
    /\ Resuming("WhileCondition")
    /\ IF is_truthy(tw_ctl.val)
       THEN Eval(Top.node.body,
                 Append(Rest, [kind |-> "WhileBody", node |-> Top.node,
                               sc |-> current_scope]))
       ELSE Yield(Top.result, Rest)
    /\ Pure

ResumeWhileBody ==
    /\ Resuming("WhileBody")
    /\ IF WhileBreaks(tw_ctl.val)
       THEN Yield(tw_ctl.val, Rest)
       ELSE Eval(Top.node.condition,
                 Append(Rest, [kind |-> "WhileCondition", node |-> Top.node,
                               result |-> tw_ctl.val, sc |-> current_scope]))
    /\ Pure

(* ReturnStatement, lines 248-251 *)
EvalReturnStatement ==
    /\ Evaluating({"ReturnStatement"})
    /\ Eval(tw_ctl.node.expr,
            Append(tw_k, [kind |-> "ReturnStatement", sc |-> current_scope]))
    /\ Pure

ResumeReturnStatement ==
    /\ Resuming("ReturnStatement")
    /\ Yield(Return(tw_ctl.val), Rest)
    /\ Pure

(* the `_` arm, line 252: a node kind evaluate_node has no arm for *)
EvalUnsupported ==
    /\ Evaluating({"Program", "ForStatement"})
    /\ runtime_error("Unsupported AST node")

(* FunctionCall, lines 192-246 *)
EvalFunctionCall ==
    /\ Evaluating({"FunctionCall"})
    /\ Eval(tw_ctl.node.callee,
            Append(tw_k, [kind |-> "Callee", arguments |-> tw_ctl.node.arguments,
                          sc |-> current_scope]))
    /\ Pure

(* line 201: the arity check *)
ArityMismatch(parameters, arguments) == Len(parameters) /= Len(arguments)

(* the fault of dynamic scoping: the call scope hangs under the caller's *)
CallParentOfCaller(env, scope) == scope

(* line 205: the parent of the scope of a call *)
CallParent(env, scope) == env

(* lines 206-217: bind the arguments one by one in the caller's scope, then *)
(* enter the body in the new scope                                          *)
CallArgsStep(func, arguments, i, new_scope, k) ==
    IF i < Len(arguments) /\ i < Len(func.parameters)
    THEN /\ Eval(arguments[i + 1],
                 Append(k, [kind |-> "CallArgs", func |-> func, arguments |-> arguments,
                            i |-> i + 1, new_scope |-> new_scope, sc |-> current_scope]))
         /\ UNCHANGED current_scope
    ELSE /\ current_scope' = new_scope
         /\ Eval(func.body,
                 Append(k, [kind |-> "CallBody", previous_scope |-> current_scope,
                            sc |-> new_scope]))

ResumeCalleeFunction ==
    /\ Resuming("Callee") /\ tw_ctl.val.t = "Function"
    /\ LET func == tw_ctl.val
       IN  IF ArityMismatch(func.parameters, Top.arguments)
           THEN runtime_error("Argument count mismatch")
           ELSE /\ tw_scopes' = Append(tw_scopes,
                                       Scope_new(CallParent(func.env, current_scope)))
                /\ CallArgsStep(func, Top.arguments, 0, Len(tw_scopes) + 1, Rest)
                /\ Running /\ UNCHANGED <<tw_arrs, tw_objs, tw_out>>

ResumeCallArgs ==
    /\ Resuming("CallArgs")
    /\ tw_scopes' = Scope_insert(tw_scopes, Top.new_scope, Top.func.parameters[Top.i],
                                 tw_ctl.val)
    /\ CallArgsStep(Top.func, Top.arguments, Top.i, Top.new_scope, Rest)
    /\ Running /\ UNCHANGED <<tw_arrs, tw_objs, tw_out>>

(* lines 219-224: restore the caller's scope, unwrap the Return *)
CallExitScope(previous_scope, scope) == previous_scope

CallValue(result) == IF result.t = "Return" THEN result.val ELSE Null

ResumeCallBody ==
    /\ Resuming("CallBody")
    /\ current_scope' = CallExitScope(Top.previous_scope, current_scope)
    /\ Yield(CallValue(tw_ctl.val), Rest)
    /\ Running /\ UNCHANGED <<tw_scopes, tw_arrs, tw_objs, tw_out>>

(* call_method (lines 255-280) applied to the evaluated arguments *)
call_method(receiver, method_name, args, k) ==
    CASE receiver.t = "String" -> Finish(string_method(method_name, receiver.s, args), k)
      [] receiver.t = "Number" -> Finish(number_method(method_name, receiver.n, args), k)
      [] receiver.t = "Array" ->
            LET m == array_method(method_name, tw_arrs[receiver.ref], args)
            IN  IF m.res.r = "ok"
                THEN /\ tw_arrs' = [tw_arrs EXCEPT ![receiver.ref] = m.arr]
                     /\ Yield(m.res.val, k)
                     /\ Running /\ UNCHANGED <<current_scope, tw_scopes, tw_objs, tw_out>>
                ELSE Finish(m.res, k)
      [] OTHER -> runtime_error("Method not found")

(* a RustFunction of std applied to the evaluated arguments, receiver Null *)
call_rust_function(name, args, k) ==
    IF name \in {"print", "println"}
    THEN IF \E i \in DOMAIN args : args[i].t = "Object" /\ MutBorrowed(k, args[i].ref)
         THEN runtime_error("already mutably borrowed: BorrowError")
         ELSE /\ \E text \in print_args(args, 1, tw_arrs, tw_objs) :
                    tw_out' = tw_out \o text \o (IF name = "println" THEN "\n" ELSE "")
              /\ Yield(Null, k)
              /\ Running /\ UNCHANGED <<current_scope, tw_scopes, tw_arrs, tw_objs>>
    ELSE Stop("unmodelled", name)

(* lines 226-243: the arguments of a Method or RustFunction call, in order *)
HostArgsStep(callee, arguments, i, args, k) ==
    IF i < Len(arguments)
    THEN /\ Eval(arguments[i + 1],
                 Append(k, [kind |-> "HostArgs", callee |-> callee,
                            arguments |-> arguments, i |-> i + 1, args |-> args,
                            sc |-> current_scope]))
         /\ Pure
    ELSE IF callee.t = "Method"
         THEN call_method(callee.receiver, callee.method_name, args, k)
         ELSE call_rust_function(callee.name, args, k)

ResumeCalleeHost ==
    /\ Resuming("Callee") /\ tw_ctl.val.t \in {"Method", "RustFunction"}
    /\ HostArgsStep(tw_ctl.val, Top.arguments, 0, <<>>, Rest)

ResumeHostArgs ==
    /\ Resuming("HostArgs")
    /\ HostArgsStep(Top.callee, Top.arguments, Top.i, Append(Top.args, tw_ctl.val), Rest)

(* line 244 *)
ResumeCalleeOther ==
    /\ Resuming("Callee") /\ tw_ctl.val.t \notin {"Function", "Method", "RustFunction"}
    /\ runtime_error("Called value is not a function")

TreeWalkStep ==
    \/ evaluate_program \/ ProgramLoop
    \/ EvalLiteral \/ EvalObjectLiteral \/ ResumeObjectLiteral
    \/ EvalArrayLiteral \/ ResumeArrayLiteral
    \/ EvalVariable \/ EvalVariableDeclaration \/ ResumeVariableDeclaration
    \/ EvalExpression
    \/ EvalAndOr \/ ResumeAndOrLeft \/ ResumeAndOrRight
    \/ EvalBinaryOp \/ ResumeBinaryLeft \/ ResumeBinaryRight \/ ResumeBinaryRightAssign
    \/ ResumeAssignVariable \/ ResumeAssignObject \/ ResumeAssignInsert
    \/ EvalUnaryOp \/ ResumeUnaryOp
    \/ EvalMemberAccess \/ ResumeMemberAccess
    \/ EvalBlock \/ ResumeBlock
    \/ EvalIfStatement \/ ResumeIfStatement
    \/ EvalFunctionDeclaration
    \/ EvalWhileStatement \/ ResumeWhileCondition \/ ResumeWhileBody
    \/ EvalReturnStatement \/ ResumeReturnStatement
    \/ EvalUnsupported
    \/ EvalFunctionCall \/ ResumeCalleeFunction \/ ResumeCallArgs \/ ResumeCallBody
    \/ ResumeCalleeHost \/ ResumeHostArgs \/ ResumeCalleeOther

-----------------------------------------------------------------------------
(* The code generator: virtualmachine/codegen.rs.  A generator is a record  *)
(* [bytecode, constants]; the Rc cells its Array and Object constants own   *)
(* and the panic flag travel with it.  Jump targets and constant indices    *)
(* are 0-based as in the code.                                              *)

(* CodeGenerator::new *)
CodeGenerator_new(arrs, objs) ==
    [bytecode |-> <<>>, constants |-> <<>>, arrs |-> arrs, objs |-> objs,
     ok |-> TRUE, msg |-> "", acc |-> <<>>]

Emit(g, ins) == [g EXCEPT !.bytecode = Append(@, ins)]

(* add_constant: the index of the new constant is Len(g.constants) *)
add_constant(g, value) == [g EXCEPT !.constants = Append(@, value)]

LoadConstLast(g) == Emit(g, [op |-> "LoadConst", index |-> Len(g.constants) - 1])

Panic(g, msg) == [g EXCEPT !.ok = FALSE, !.msg = msg]

BinaryInstruction(op) ==
    CASE op = "Plus" -> "Add" [] op = "Minus" -> "Sub" [] op = "Star" -> "Mul"
      [] op = "Slash" -> "Div" [] op = "Equal" -> "Eq" [] op = "NotEqual" -> "NotEq"
      [] op = "Greater" -> "Gt" [] op = "GreaterEqual" -> "GtEqual"
      [] op = "Less" -> "Lt" [] op = "LessEqual" -> "LtEqual"
      [] OTHER -> "unimplemented"

(* the operand a patched jump gets: the current instruction index *)
PatchTarget(g) == Len(g.bytecode)

(* the fault of a jump whose placeholder is never overwritten *)
NoPatch(g, pos, ins) == g

Patch(g, pos, ins) == [g EXCEPT !.bytecode[pos + 1] = ins]

RECURSIVE generate_bytecode_inner(_, _), generate_nodes(_, _, _),
          generate_elements(_, _, _), generate_properties(_, _, _)

(* `for node in nodes { self.generate_bytecode_inner(node) }` *)
generate_nodes(g, nodes, i) ==
    IF i > Len(nodes) \/ ~g.ok THEN g
    ELSE generate_nodes(generate_bytecode_inner(g, nodes[i]), nodes, i + 1)

(* ArrayLiteral, lines 202-206: after each element, the last constant *)
generate_elements(g, elements, i) ==
    IF i > Len(elements) \/ ~g.ok THEN g
    ELSE LET g1 == generate_bytecode_inner(g, elements[i])
         IN  IF ~g1.ok THEN g1
             ELSE IF g1.constants = <<>> THEN Panic(g1, "attempt to subtract with overflow")
             ELSE generate_elements(
                    [g1 EXCEPT !.acc = Append(g.acc, g1.constants[Len(g1.constants)])],
                    elements, i + 1)

(* ObjectLiteral, lines 187-191 *)
generate_properties(g, properties, i) ==
    IF i > Len(properties) \/ ~g.ok THEN g
    ELSE LET g1 == generate_bytecode_inner(g, properties[i][2])
         IN  IF ~g1.ok THEN g1
             ELSE IF g1.constants = <<>> THEN Panic(g1, "attempt to subtract with overflow")
             ELSE generate_properties(
                    [g1 EXCEPT !.acc = (properties[i][1] :> g1.constants[Len(g1.constants)])
                                       @@ g.acc],
                    properties, i + 1)

(* generate_bytecode: a Program's statements, or the node itself *)
generate_bytecode(g, ast) ==
    IF ast.kind = "Program" THEN generate_nodes(g, ast.statements, 1)
    ELSE generate_bytecode_inner(g, ast)

generate_bytecode_inner(g, node) ==
    IF ~g.ok THEN g ELSE
    CASE node.kind = "NumberLiteral" -> LoadConstLast(add_constant(g, Number(node.n)))
      [] node.kind = "StringLiteral" -> LoadConstLast(add_constant(g, String(node.s)))
      [] node.kind = "BooleanLiteral" -> LoadConstLast(add_constant(g, Boolean(node.b)))
      [] node.kind = "NullLiteral" -> LoadConstLast(add_constant(g, Null))
      [] node.kind = "Variable" -> Emit(g, [op |-> "LoadVar", name |-> node.name])
      [] node.kind = "BinaryOp" /\ node.op = "Assign" ->
            LET g1 == generate_bytecode_inner(g, node.right)
            IN  IF ~g1.ok THEN g1
                ELSE CASE node.left.kind = "Variable" ->
                            Emit(g1, [op |-> "StoreVar", name |-> node.left.name])
                       [] node.left.kind = "MemberAccess" ->
                            LET g2 == generate_bytecode_inner(g1, node.left.object)
                            IN  IF ~g2.ok THEN g2
                                ELSE Emit(LoadConstLast(
                                            add_constant(g2, String(node.left.member))),
                                          [op |-> "SetProp", name |-> node.left.member])
                       [] OTHER -> Panic(g1, "Invalid assignment target")
      [] node.kind = "BinaryOp" /\ node.op /= "Assign" ->
            LET g2 == generate_bytecode_inner(generate_bytecode_inner(g, node.left),
                                              node.right)
            IN  IF ~g2.ok THEN g2
                ELSE IF BinaryInstruction(node.op) = "unimplemented"
                     THEN Panic(g2, "not implemented")
                     ELSE Emit(g2, [op |-> BinaryInstruction(node.op)])
      [] node.kind = "UnaryOp" ->
            LET g1 == generate_bytecode_inner(g, node.operand)
            IN  IF ~g1.ok THEN g1
                ELSE IF node.op = "Minus"
                     THEN Emit(LoadConstLast(add_constant(g1, Number(-1))), [op |-> "Mul"])
                     ELSE Panic(g1, "not implemented")
      [] node.kind = "VariableDeclaration" ->
            LET g1 == generate_bytecode_inner(g, node.value)
            IN  IF ~g1.ok THEN g1 ELSE Emit(g1, [op |-> "StoreVar", name |-> node.name])
      [] node.kind = "Block" -> generate_nodes(g, node.statements, 1)
      [] node.kind = "IfStatement" ->
            LET g1 == generate_bytecode_inner(g, node.condition)
                jump_if_false_pos == Len(g1.bytecode)
                g2 == generate_bytecode_inner(
                        Emit(g1, [op |-> "JumpIfFalse", position |-> 0]), node.consequence)
                jump_pos == Len(g2.bytecode)
                g3 == Emit(g2, [op |-> "Jump", position |-> 0])
                g4 == Patch(g3, jump_if_false_pos,
                            [op |-> "JumpIfFalse", position |-> PatchTarget(g3)])
                g5 == IF node.alternative /= <<>>
                      THEN generate_bytecode_inner(g4, node.alternative[1]) ELSE g4
            IN  IF ~g1.ok THEN g1 ELSE IF ~g2.ok THEN g2 ELSE IF ~g5.ok THEN g5
                ELSE Patch(g5, jump_pos, [op |-> "Jump", position |-> PatchTarget(g5)])
      [] node.kind = "WhileStatement" ->
            LET start_pos == Len(g.bytecode)
                g1 == generate_bytecode_inner(g, node.condition)
                jump_if_false_pos == Len(g1.bytecode)
                g2 == generate_bytecode_inner(
                        Emit(g1, [op |-> "JumpIfFalse", position |-> 0]), node.body)
                g3 == Emit(g2, [op |-> "Jump", position |-> start_pos])
            IN  IF ~g1.ok THEN g1 ELSE IF ~g2.ok THEN g2
                ELSE Patch(g3, jump_if_false_pos,
                           [op |-> "JumpIfFalse", position |-> PatchTarget(g3)])
      [] node.kind = "FunctionDeclaration" ->
            LET inner == generate_bytecode(CodeGenerator_new(g.arrs, g.objs), node.body)
                g1 == add_constant([g EXCEPT !.arrs = inner.arrs, !.objs = inner.objs],
                                   VmFunction(inner.bytecode, inner.constants,
                                              node.parameters, node.name))
            IN  IF ~inner.ok THEN Panic(g, inner.msg)
                ELSE IF node.name /= <<>>
                     THEN Emit(LoadConstLast(g1), [op |-> "StoreVar", name |-> node.name[1]])
                     ELSE g1
      [] node.kind = "FunctionCall" ->
            LET g1 == generate_nodes(generate_bytecode_inner(g, node.callee),
                                     node.arguments, 1)
            IN  IF ~g1.ok THEN g1
                ELSE Emit(g1, [op |-> "Call", arg_count |-> Len(node.arguments)])
      [] node.kind = "ReturnStatement" ->
            LET g1 == generate_bytecode_inner(g, node.expr)
            IN  IF ~g1.ok THEN g1 ELSE Emit(g1, [op |-> "Return"])
      [] node.kind = "Expression" -> generate_bytecode_inner(g, node.expr)
      [] node.kind = "ObjectLiteral" ->
            LET g1 == generate_properties([g EXCEPT !.acc = <<>>], node.properties, 1)
                g2 == [g1 EXCEPT !.objs = Append(@, g1.acc), !.acc = g.acc]
            IN  IF ~g1.ok THEN g1
                ELSE LoadConstLast(add_constant(g2, Object(Len(g2.objs))))
      [] node.kind = "MemberAccess" ->
            LET g1 == generate_bytecode_inner(g, node.object)
            IN  IF ~g1.ok THEN g1
                ELSE Emit(add_constant(g1, String(node.member)),
                          [op |-> "GetProp", name |-> node.member])
      [] node.kind = "ArrayLiteral" ->
            LET g1 == generate_elements([g EXCEPT !.acc = <<>>], node.values, 1)
                g2 == [g1 EXCEPT !.arrs = Append(@, g1.acc), !.acc = g.acc]
            IN  IF ~g1.ok THEN g1
                ELSE LoadConstLast(add_constant(g2, Array(Len(g2.arrs))))
      [] OTHER -> Panic(g, "Unsupported AST node")

-----------------------------------------------------------------------------
(* The stack VM: virtualmachine/interpreter.rs.  One action per arm of      *)
(* execute_instruction, each including the fetch and the increment of the   *)
(* instruction pointer that VM::run does before it.                         *)

Environment_new(parent) == [values |-> <<>>, parent |-> parent]

RECURSIVE Environment_get(_, _, _)
Environment_get(envs, id, name) ==
    IF id = 0 THEN <<>>
    ELSE IF name \in DOMAIN envs[id].values THEN <<envs[id].values[name]>>
    ELSE Environment_get(envs, envs[id].parent, name)

Environment_set(envs, id, name, value) ==
    [envs EXCEPT ![id].values = (name :> value) @@ @]

(* common.rs Value::is_truthy *)
common_is_truthy(v) ==
    CASE v.t = "Boolean" -> v.b
      [] v.t = "Number" -> v.n /= 0
      [] v.t = "String" -> v.s /= ""
      [] v.t = "Null" -> FALSE
      [] OTHER -> TRUE

(* common.rs Value::print *)
RECURSIVE common_print(_, _), common_print_all(_, _, _, _)
common_print_all(vs, i, sep, arrs) ==
    IF i > Len(vs) THEN ""
    ELSE common_print(vs[i], arrs) \o (IF i < Len(vs) THEN sep ELSE "")
         \o common_print_all(vs, i + 1, sep, arrs)

common_print(v, arrs) ==
    CASE v.t = "Number" -> ToString(v.n)
      [] v.t = "Boolean" -> IF v.b THEN "true" ELSE "false"
      [] v.t = "String" -> v.s
      [] v.t = "Null" -> "null"
      [] v.t = "Array" -> "[" \o common_print_all(arrs[v.ref], 1, ", ", arrs) \o "]"
      [] v.t = "Object" -> "Object"
      [] v.t = "Function" -> "Function"
      [] v.t = "Unit" -> ""
      [] OTHER -> "Unsupported value"

(* add_values .. gte_values, and the derived PartialEq of Eq and NotEq *)
vm_binary(op, a, b) ==
    IF op \in {"Eq", "NotEq"}
    THEN IF EqDecidable(a, b)
         THEN Ok(Boolean(ValueEq(a, b) = (op = "Eq")))
         ELSE Unmodelled
    ELSE IF a.t = "Number" /\ b.t = "Number"
    THEN CASE op = "Add" -> Ok(Number(a.n + b.n))
           [] op = "Sub" -> Ok(Number(a.n - b.n))
           [] op = "Mul" -> Ok(Number(a.n * b.n))
           [] op = "Div" -> IF b.n /= 0 /\ a.n % (IF b.n < 0 THEN -b.n ELSE b.n) = 0
                            THEN Ok(Number(IF b.n < 0 THEN -(a.n \div (-b.n))
                                           ELSE a.n \div b.n))
                            ELSE Unmodelled
           [] op = "Mod" -> IF b.n = 0 THEN Unmodelled
                            ELSE LET y == IF b.n < 0 THEN -b.n ELSE b.n
                                 IN  Ok(Number(IF a.n < 0 THEN -((-a.n) % y) ELSE a.n % y))
           [] op = "Lt" -> Ok(Boolean(a.n < b.n))
           [] op = "Gt" -> Ok(Boolean(a.n > b.n))
           [] op = "LtEqual" -> Ok(Boolean(a.n <= b.n))
           [] op = "GtEqual" -> Ok(Boolean(a.n >= b.n))
    ELSE IF op = "Add" /\ a.t = "String" /\ b.t = "String" THEN Ok(String(a.s \o b.s))
    ELSE Err(CASE op = "Add" -> "Type error in addition"
               [] op = "Sub" -> "Type error in subtraction"
               [] op = "Mul" -> "Type error in multiplication"
               [] op = "Div" -> "Type error in division"
               [] op = "Mod" -> "Type error in modulo"
               [] op = "Lt" -> "Type error in less than comparison"
               [] op = "Gt" -> "Type error in greater than comparison"
               [] op = "LtEqual" -> "Type error in less than or equal comparison"
               [] op = "GtEqual" -> "Type error in greater than or equal comparison")

(* virtualmachine/stdlib.rs *)
std_lib == {"print", "println", "system"}
vm_array_methods == {"length", "push", "get", "set"}

(* a StdMethod applied to a receiver: [r, val, arrs, out] *)
StdResult(r, val, arrs, out) == [r |-> r, val |-> val, arrs |-> arrs, out |-> out]

std_method(name, receiver, args, arrs) ==
    CASE name = "print" ->
            StdResult("ok", Null, arrs, common_print_all(args, 1, "", arrs))
      [] name = "println" ->
            StdResult("ok", Null, arrs, common_print_all(args, 1, "", arrs) \o "\n")
      [] name \in vm_array_methods /\ receiver.t /= "Array" ->
            StdResult("panic", String("Expected array"), arrs, "")
      [] name = "length" /\ receiver.t = "Array" ->
            StdResult("ok", Number(Len(arrs[receiver.ref])), arrs, "")
      [] name \in {"push", "get", "set"} /\ receiver.t = "Array" /\ args = <<>> ->
            StdResult("panic", String("index out of bounds"), arrs, "")
      [] name = "push" /\ receiver.t = "Array" /\ args /= <<>> ->
            StdResult("ok", Null, [arrs EXCEPT ![receiver.ref] = Append(@, args[1])], "")
      [] name \in {"get", "set"} /\ receiver.t = "Array" /\ args /= <<>> ->
            IF args[1].t /= "Number"
            THEN StdResult("panic", String("Expected number"), arrs, "")
            ELSE IF AsUsize(args[1].n) >= Len(arrs[receiver.ref])
            THEN StdResult("panic", String("Index out of bounds"), arrs, "")
            ELSE IF name = "get"
            THEN StdResult("ok", arrs[receiver.ref][AsUsize(args[1].n) + 1], arrs, "")
            ELSE IF Len(args) < 2
            THEN StdResult("panic", String("index out of bounds"), arrs, "")
            ELSE StdResult("ok", Null,
                           [arrs EXCEPT ![receiver.ref][AsUsize(args[1].n) + 1] = args[2]],
                           "")
      [] OTHER -> StdResult("unmodelled", Null, arrs, "")

Frame == call_stack[Len(call_stack)]

Instruction == Frame.function.instructions[Frame.instruction_pointer + 1]

Fetching(ops) ==
    /\ phase = "vm" /\ vm_status = "run" /\ call_stack /= <<>>
    /\ Frame.instruction_pointer < Len(Frame.function.instructions)
    /\ Instruction.op \in ops

(* the call stack after `frame.instruction_pointer += 1` *)
Advanced == [call_stack EXCEPT ![Len(call_stack)].instruction_pointer = @ + 1]

Popped(n) == SubSeq(stack, 1, Len(stack) - n)

VmRunning == UNCHANGED <<program, phase, cg, vm_status, vm_error, vm_result, tw_vars, fe_vars>>

(* `?` on an Err, or a panic: VM::run ends *)
VmStop(status, msg) ==
    /\ vm_status' = status /\ vm_error' = msg
    /\ UNCHANGED <<program, phase, cg, stack, call_stack, globals, vm_envs, vm_arrs,
                   vm_objs, vm_out, vm_result, tw_vars, fe_vars>>

(* pop_stack on an empty stack *)
Underflow == VmStop("panic", "called Option::unwrap() on a None value")

(* the state changes of an instruction that only moves the stack and the ip *)
VmStep(new_stack, new_call_stack) ==
    /\ stack' = new_stack /\ call_stack' = new_call_stack
    /\ VmRunning /\ UNCHANGED <<globals, vm_envs, vm_arrs, vm_objs, vm_out>>

(* CodeGenerator::new().generate_bytecode(ast) on the program the tree-walk  *)
(* evaluator has finished with                                              *)
generate ==
    /\ phase = "treewalk" /\ tw_status /= "run"
    /\ phase' = "codegen"
    /\ cg' = generate_bytecode(CodeGenerator_new(<<>>, <<>>),
                               [kind |-> "Program", statements |-> Statements(program)])
    /\ UNCHANGED <<program, stack, call_stack, globals, vm_envs, vm_arrs, vm_objs,
                   vm_out, vm_status, vm_error, vm_result, tw_vars, fe_vars>>

(* the Function handed to VM::run *)
MainFunction ==
    IF IsBytecode(program) THEN Compiled(program)
    ELSE VmFunction(cg.bytecode, cg.constants, <<>>, <<>>)

(* VM::run, lines 74-78: push the initial frame *)
run ==
    /\ \/ phase = "codegen" /\ cg.ok
       \/ phase = "start" /\ IsBytecode(program)
    /\ phase' = "vm" /\ vm_status' = "run"
    /\ vm_envs' = <<Environment_new(0)>>
    /\ call_stack' = <<[function |-> MainFunction, instruction_pointer |-> 0,
                        environment |-> 1]>>
    /\ vm_arrs' = cg.arrs /\ vm_objs' = cg.objs
    /\ UNCHANGED <<program, cg, stack, globals, vm_out, vm_error, vm_result, tw_vars, fe_vars>>

(* VM::run, lines 80-85 and 92: no frame left, or the frame ran off its end *)
RunExit ==
    /\ phase = "vm" /\ vm_status = "run"
    /\ call_stack /= <<>> => Frame.instruction_pointer >= Len(Frame.function.instructions)
    /\ call_stack' = IF call_stack = <<>> THEN <<>>
                     ELSE SubSeq(call_stack, 1, Len(call_stack) - 1)
    /\ vm_result' = IF stack = <<>> THEN Unit ELSE stack[Len(stack)]
    /\ stack' = IF stack = <<>> THEN <<>> ELSE Popped(1)
    /\ vm_status' = "done"
    /\ UNCHANGED <<program, phase, cg, globals, vm_envs, vm_arrs, vm_objs, vm_out,
                   vm_error, tw_vars, fe_vars>>

LoadConst ==
    /\ Fetching({"LoadConst"})
    /\ IF Instruction.index < Len(Frame.function.constants)
       THEN VmStep(Append(stack, Frame.function.constants[Instruction.index + 1]), Advanced)
       ELSE VmStop("error", "Constant not found")

LoadVar ==
    /\ Fetching({"LoadVar"})
    /\ LET name == Instruction.name
           found == Environment_get(vm_envs, Frame.environment, name)
       IN  IF found /= <<>> THEN VmStep(Append(stack, found[1]), Advanced)
           ELSE IF name \in DOMAIN globals THEN VmStep(Append(stack, globals[name]), Advanced)
           ELSE IF name \in std_lib
           THEN VmStep(Append(stack, VmFunction(<<>>, <<>>, <<>>, <<name>>)), Advanced)
           ELSE VmStop("error", "Variable " \o name \o " not found during LoadVar")

StoreVar ==
    /\ Fetching({"StoreVar"})
    /\ IF stack = <<>> THEN Underflow
       ELSE /\ vm_envs' = Environment_set(vm_envs, Frame.environment, Instruction.name,
                                          stack[Len(stack)])
            /\ stack' = Popped(1) /\ call_stack' = Advanced
            /\ VmRunning /\ UNCHANGED <<globals, vm_arrs, vm_objs, vm_out>>

(* Add, Sub, Mul, Div, Mod, Eq, NotEq, Lt, Gt, LtEqual, GtEqual *)
BinaryInstructionStep ==
    /\ Fetching({"Add", "Sub", "Mul", "Div", "Mod", "Eq", "NotEq", "Lt", "Gt",
                 "LtEqual", "GtEqual"})
    /\ IF Len(stack) < 2 THEN Underflow
       ELSE LET res == vm_binary(Instruction.op, stack[Len(stack) - 1], stack[Len(stack)])
            IN  IF res.r = "ok" THEN VmStep(Append(Popped(2), res.val), Advanced)
                ELSE IF res.r = "error" THEN VmStop("error", res.msg)
                ELSE VmStop("unmodelled", "")

Jump ==
    /\ Fetching({"Jump"})
    /\ VmStep(stack, [call_stack EXCEPT
                        ![Len(call_stack)].instruction_pointer = Instruction.position])

(* where JumpIfFalse leaves the instruction pointer *)
JumpIfFalseTarget(condition, position, next) ==
    IF ~common_is_truthy(condition) THEN position ELSE next

JumpIfFalse ==
    /\ Fetching({"JumpIfFalse"})
    /\ IF stack = <<>> THEN Underflow
       ELSE VmStep(Popped(1),
                   [call_stack EXCEPT ![Len(call_stack)].instruction_pointer =
                       JumpIfFalseTarget(stack[Len(stack)], Instruction.position, @ + 1)])


(* Call, lines 249-256: the parameters bound in the new environment *)
RECURSIVE BindParameters(_, _, _, _, _)
BindParameters(envs, id, parameters, args, i) ==
    IF i > Len(parameters) THEN envs
    ELSE BindParameters(
            Environment_set(envs, id, parameters[i],
                            IF i <= Len(args) THEN args[i] ELSE Null),
            id, parameters, args, i + 1)

(* Call, lines 242-245: the parent of the callee's environment *)
CallParentEnvironment(caller) == caller.environment

Call ==
    /\ Fetching({"Call"})
    /\ LET arg_count == Instruction.arg_count
       IN  IF Len(stack) < arg_count + 2 THEN Underflow
           ELSE
           LET args == SubSeq(stack, Len(stack) - arg_count + 1, Len(stack))
               function_value == stack[Len(stack) - arg_count]
               receiver == stack[Len(stack) - arg_count - 1]
               rest == Popped(arg_count + 2)
               host == IF function_value.t = "Function"
                       THEN std_method(function_value.name[1], Null, args, vm_arrs)
                       ELSE std_method(function_value.name, receiver, args, vm_arrs)
           IN  CASE function_value.t = "Function" /\
                    ~(function_value.name /= <<>> /\ function_value.name[1] \in std_lib) ->
                        /\ vm_envs' = BindParameters(
                                Append(vm_envs,
                                       Environment_new(CallParentEnvironment(Frame))),
                                Len(vm_envs) + 1, function_value.parameters, args, 1)
                        /\ call_stack' = Append(Advanced,
                                [function |-> function_value, instruction_pointer |-> 0,
                                 environment |-> Len(vm_envs) + 1])
                        /\ stack' = rest
                        /\ VmRunning /\ UNCHANGED <<globals, vm_arrs, vm_objs, vm_out>>
                 [] function_value.t \in {"Function", "StdFunction"} /\
                    (function_value.t = "Function" =>
                        function_value.name /= <<>> /\ function_value.name[1] \in std_lib) ->
                        IF host.r = "ok"
                        THEN /\ stack' = Append(rest, host.val)
                             /\ call_stack' = Advanced
                             /\ vm_arrs' = host.arrs
                             /\ vm_out' = vm_out \o host.out
                             /\ VmRunning /\ UNCHANGED <<globals, vm_envs, vm_objs>>
                        ELSE IF host.r = "panic" THEN VmStop("panic", host.val.s)
                        ELSE VmStop("unmodelled", "")
                 [] OTHER -> VmStop("error", "Attempted to call a non-function")

ReturnStep ==
    /\ Fetching({"Return"})
    /\ IF stack = <<>> THEN Underflow
       ELSE VmStep(stack, SubSeq(call_stack, 1, Len(call_stack) - 1))

GetProp ==
    /\ Fetching({"GetProp"})
    /\ IF stack = <<>> THEN Underflow
       ELSE LET object == stack[Len(stack)]
                property == Instruction.name
            IN  CASE object.t = "Object" ->
                        IF property \in DOMAIN vm_objs[object.ref]
                        THEN VmStep(Append(Popped(1), vm_objs[object.ref][property]),
                                    Advanced)
                        ELSE VmStop("error", "Property " \o property \o " not found")
                  [] object.t = "Array" ->
                        IF property \in vm_array_methods
                        THEN VmStep(Append(Popped(1), StdFunction(property)), Advanced)
                        ELSE VmStop("error", "Method " \o property \o " not found")
                  [] OTHER -> VmStop("error", "Value is not an object")

SetProp ==
    /\ Fetching({"SetProp"})
    /\ IF Len(stack) < 2 THEN Underflow
       ELSE LET value == stack[Len(stack)]
                object == stack[Len(stack) - 1]
            IN  IF object.t = "Object"
                THEN /\ vm_objs' = [vm_objs EXCEPT ![object.ref] =
                                        (Instruction.name :> value) @@ @]
                     /\ stack' = Popped(2) /\ call_stack' = Advanced
                     /\ VmRunning /\ UNCHANGED <<globals, vm_envs, vm_arrs, vm_out>>
                ELSE VmStop("error", "Value is not an object")

BuildArray ==
    /\ Fetching({"BuildArray"})
    /\ IF Len(stack) < Instruction.count THEN Underflow
       ELSE /\ vm_arrs' = Append(vm_arrs, SubSeq(stack, Len(stack) - Instruction.count + 1,
                                                 Len(stack)))
            /\ stack' = Append(Popped(Instruction.count), Array(Len(vm_arrs) + 1))
            /\ call_stack' = Advanced
            /\ VmRunning /\ UNCHANGED <<globals, vm_envs, vm_objs, vm_out>>

Duplicate ==
    /\ Fetching({"Duplicate"})
    /\ IF stack = <<>> THEN VmStop("error", "No value to duplicate")
       ELSE VmStep(Append(stack, stack[Len(stack)]), Advanced)

(* the `_` arm: a Bytecode variant execute_instruction has no arm for *)
UnknownInstruction ==
    /\ Fetching({"Not"})
    /\ VmStop("error", "Unknown instruction")

VmNext ==
    \/ RunExit \/ LoadConst \/ LoadVar \/ StoreVar \/ BinaryInstructionStep
    \/ Jump \/ JumpIfFalse \/ Call \/ ReturnStep \/ GetProp \/ SetProp
    \/ BuildArray \/ Duplicate \/ UnknownInstruction

-----------------------------------------------------------------------------
(* TreeWalk::new: one global scope, which is the current scope; VM::new *)
-----------------------------------------------------------------------------
(* The front end: tokenize (tokenizer.rs) and parse (parser.rs).            *)
Lexer_idle == [state |-> "idle"]
Parser_idle == [state |-> "idle"]

(* tokenize's locals (tokenizer.rs:97-101); chars.peek() is text[pos + 1] *)
Lexer_new(text) ==
    [state |-> "run", text |-> text, pos |-> 0, line |-> 1, col |-> 1,
     tokens |-> <<>>, error |-> <<>>, starts |-> <<>>]

Digit == {"0", "1", "2", "3", "4", "5", "6", "7", "8", "9"}
Alphabetic ==
    {"a", "b", "c", "d", "e", "f", "g", "h", "i", "j", "k", "l", "m", "n", "o", "p", "q",
     "r", "s", "t", "u", "v", "w", "x", "y", "z", "A", "B", "C", "D", "E", "F", "G", "H",
     "I", "J", "K", "L", "M", "N", "O", "P", "Q", "R", "S", "T", "U", "V", "W", "X", "Y",
     "Z"}
Whitespace == {" ", "\t", "\r", "\f"}

(* lines 71-73 *)
is_identifier_char(c) == c \in Alphabetic \/ c = "_" \/ c \in Digit

(* lines 75-90 *)
get_identifier(id, line, column) ==
    LET s == Concat(id)
        kind == CASE s = "let" -> "Let" [] s = "fn" -> "Function" [] s = "if" -> "If"
                  [] s = "else" -> "Else" [] s = "return" -> "Return"
                  [] s = "null" -> "Null" [] s = "true" -> "True"
                  [] s = "false" -> "False" [] s = "while" -> "While"
                  [] s = "for" -> "For" [] OTHER -> "Identifier"
    IN  Token_new(kind, id, line, column)

HasNext(lx) == lx.pos < Len(lx.text)
PeekChar(lx) == lx.text[lx.pos + 1]
(* chars.next() *)
Skip(lx) == IF HasNext(lx) THEN [lx EXCEPT !.pos = @ + 1] ELSE lx
Push(lx, kind, value) ==
    [lx EXCEPT !.tokens = Append(@, Token_new(kind, value, lx.line, lx.col))]
(* lines 92-94: return error(message, line, col) *)
TokenizerError(lx, message) ==
    [lx EXCEPT !.state = "err",
               !.error = [message |-> message, line |-> lx.line, column |-> lx.col]]
(* the offset in the text of the first character of each token: an arm *)
(* pushes at most one token, which begins where the arm began           *)
Started(before, after) ==
    IF Len(after.tokens) > Len(before.tokens)
    THEN [after EXCEPT !.starts = Append(@, before.pos + 1)]
    ELSE after

(* line 379: col += 1 at the end of an iteration that did not return *)
EndArm(lx) == IF lx.state = "err" THEN lx ELSE [lx EXCEPT !.col = @ + 1]

(* lines 104-115 *)
RECURSIVE number_arm_loop(_, _)
number_arm_loop(lx, value) ==
    IF HasNext(lx) /\ (PeekChar(lx) \in Digit \/ PeekChar(lx) = ".")
    THEN number_arm_loop(Skip(lx), Append(value, PeekChar(lx)))
    ELSE [lx |-> lx, value |-> value]

number_arm(lx) ==
    LET loop == number_arm_loop(lx, <<>>)
    IN  [loop.lx EXCEPT !.tokens =
            Append(@, Token_new("Number", loop.value, lx.line, lx.col))]

(* the arms that push one token for one character and call chars.next() *)
SingleKind(c) ==
    CASE c = "*" -> "Star" [] c = "%" -> "Mod" [] c = "(" -> "LParen"
      [] c = ")" -> "RParen" [] c = "{" -> "LBrace" [] c = "}" -> "RBrace"
      [] c = "[" -> "LBrack" [] c = "]" -> "RBrack" [] c = ";" -> "SemiColon"
      [] c = ":" -> "Colon" [] c = "," -> "Comma" [] c = "^" -> "BitXor"
      [] c = "." -> "Dot"

single_arm(lx) == Skip(Push(lx, SingleKind(PeekChar(lx)), <<PeekChar(lx)>>))

(* the arms of + - = < > !: <<second character, kind of the pair, kind alone>> *)
PairKinds(c) ==
    CASE c = "+" -> <<"+", "Inc", "Plus">> [] c = "-" -> <<"-", "Dec", "Minus">>
      [] c = "=" -> <<"=", "Equal", "Assign">> [] c = "<" -> <<"=", "LessEqual", "Less">>
      [] c = ">" -> <<"=", "GreaterEqual", "Greater">>
      [] c = "!" -> <<"=", "NotEqual", "Bang">>

pair_arm(lx) ==
    LET c == PeekChar(lx)
        k == PairKinds(c)
        l1 == Skip(lx)
    IN  IF HasNext(l1) /\ PeekChar(l1) = k[1] THEN Skip(Push(l1, k[2], <<c, k[1]>>))
        ELSE Push(l1, k[3], <<c>>)

(* lines 150-156: a line comment stops in front of the newline *)
RECURSIVE line_comment_loop(_)
line_comment_loop(lx) ==
    IF ~HasNext(lx) THEN lx
    ELSE IF PeekChar(lx) = "\n" THEN [lx EXCEPT !.line = @ + 1]
    ELSE line_comment_loop(Skip(lx))

(* lines 159-168: a block comment stops in front of the `/` that follows a `*` *)
RECURSIVE block_comment_loop(_, _)
block_comment_loop(lx, last_char) ==
    IF ~HasNext(lx) THEN lx
    ELSE LET c == PeekChar(lx)
         IN  IF c = "/" /\ last_char = "*" THEN lx
             ELSE block_comment_loop(
                      Skip(IF c = "\n" THEN [lx EXCEPT !.line = @ + 1] ELSE lx), c)

(* lines 146-176; the chars.next() of line 175 follows every branch *)
slash_arm(lx) ==
    LET l1 == Skip(lx)
    IN  Skip(IF ~HasNext(l1) THEN Push(l1, "Slash", <<"/">>)
             ELSE IF PeekChar(l1) = "/" THEN line_comment_loop(l1)
             ELSE IF PeekChar(l1) = "*" THEN block_comment_loop(l1, "/")
             ELSE Push(l1, "Slash", <<"/">>))

(* lines 205-209 *)
newline_arm(lx) == Skip([lx EXCEPT !.line = @ + 1, !.col = 0])

(* lines 210-212 *)
whitespace_arm(lx) == Skip(lx)

(* lines 291-320: the characters of a string up to the closing quote or the *)
(* end of the text                                                          *)
RECURSIVE string_arm_loop(_, _, _)
string_arm_loop(lx, chr, value) ==
    IF ~HasNext(lx) \/ PeekChar(lx) = chr THEN [lx |-> lx, value |-> value]
    ELSE IF PeekChar(lx) = "\\"
    THEN LET l1 == Skip(lx)
         IN  IF ~HasNext(l1)
             THEN [lx |-> TokenizerError(l1, "Invalid escape character"), value |-> value]
             ELSE LET n == PeekChar(l1)
                  IN  IF n \in {"n", "r", "t"}
                      THEN string_arm_loop(Skip(l1), chr,
                               Append(value, CASE n = "n" -> "\n" [] n = "r" -> "\r"
                                               [] n = "t" -> "\t"))
                      ELSE [lx |-> TokenizerError(l1, "Invalid escape character \\" \o n),
                            value |-> value]
    ELSE string_arm_loop(Skip(lx), chr, Append(value, PeekChar(lx)))

(* lines 287-323 *)
string_arm(lx) ==
    LET loop == string_arm_loop(Skip(lx), PeekChar(lx), <<>>)
    IN  IF loop.lx.state = "err" THEN loop.lx
        ELSE Push(Skip(loop.lx), "String", loop.value)

(* lines 324-336 *)
pipe_arm(lx) ==
    LET l1 == Skip(lx)
    IN  IF ~HasNext(l1) THEN TokenizerError(l1, "Unknown character: '|'")
        ELSE IF PeekChar(l1) = "|" THEN Skip(Push(l1, "Or", <<"|", "|">>))
        ELSE TokenizerError(l1, "Unknown character: '|" \o PeekChar(l1) \o "'")

(* lines 337-351: chars.next() follows the push of BitAnd as well *)
ampersand_arm(lx) ==
    LET l1 == Skip(lx)
    IN  IF HasNext(l1) /\ PeekChar(l1) = "&" THEN Skip(Push(l1, "And", <<"&", "&">>))
        ELSE Skip(Push(l1, "BitAnd", <<"&">>))

(* lines 362-370 *)
RECURSIVE identifier_arm_loop(_, _)
identifier_arm_loop(lx, value) ==
    IF HasNext(lx) /\ is_identifier_char(PeekChar(lx))
    THEN identifier_arm_loop(Skip(lx), Append(value, PeekChar(lx)))
    ELSE [lx |-> lx, value |-> value]

(* lines 361-377 *)
default_arm(lx) ==
    LET loop == identifier_arm_loop(lx, <<>>)
    IN  IF loop.value /= <<>>
        THEN [loop.lx EXCEPT !.tokens =
                 Append(@, get_identifier(loop.value, lx.line, lx.col))]
        ELSE TokenizerError(Skip(lx), "Unknown character: '" \o PeekChar(lx) \o "'")

SingleChars == {"*", "%", "(", ")", "{", "}", "[", "]", ";", ":", ",", "^", "."}
PairChars == {"+", "-", "=", "<", ">", "!"}
IdentifierStart == Alphabetic \cup {"_"}
MatchedChars ==
    Digit \cup SingleChars \cup PairChars \cup Whitespace \cup IdentifierStart
    \cup {"/", "\n", "\"", "'", "|", "&"}

LexRunning == UNCHANGED <<program, phase, parser, tw_vars, vm_vars>>

(* one iteration of the loop of tokenize with c at the head of chars *)
Lexing == phase = "lex" /\ lexer.state = "run" /\ HasNext(lexer)

(* main.rs: tokenizer::tokenize(contents) *)
tokenize ==
    /\ phase = "start" /\ program.name \in TextFamilies
    /\ phase' = "lex"
    /\ lexer' = Lexer_new(TextInput(program))
    /\ UNCHANGED <<program, parser, tw_vars, vm_vars>>

LexNumber ==
    /\ Lexing /\ PeekChar(lexer) \in Digit
    /\ lexer' = EndArm(Started(lexer, number_arm(lexer))) /\ LexRunning

LexSingle ==
    /\ Lexing /\ PeekChar(lexer) \in SingleChars
    /\ lexer' = EndArm(Started(lexer, single_arm(lexer))) /\ LexRunning

LexPair ==
    /\ Lexing /\ PeekChar(lexer) \in PairChars
    /\ lexer' = EndArm(Started(lexer, pair_arm(lexer))) /\ LexRunning

LexSlash ==
    /\ Lexing /\ PeekChar(lexer) = "/"
    /\ lexer' = EndArm(Started(lexer, slash_arm(lexer))) /\ LexRunning

LexNewLine ==
    /\ Lexing /\ PeekChar(lexer) = "\n"
    /\ lexer' = EndArm(Started(lexer, newline_arm(lexer))) /\ LexRunning

LexWhitespace ==
    /\ Lexing /\ PeekChar(lexer) \in Whitespace
    /\ lexer' = EndArm(Started(lexer, whitespace_arm(lexer))) /\ LexRunning

LexString ==
    /\ Lexing /\ PeekChar(lexer) \in {"\"", "'"}
    /\ lexer' = EndArm(Started(lexer, string_arm(lexer))) /\ LexRunning

LexPipe ==
    /\ Lexing /\ PeekChar(lexer) = "|"
    /\ lexer' = EndArm(Started(lexer, pipe_arm(lexer))) /\ LexRunning

LexAmpersand ==
    /\ Lexing /\ PeekChar(lexer) = "&"
    /\ lexer' = EndArm(Started(lexer, ampersand_arm(lexer))) /\ LexRunning

LexIdentifier ==
    /\ Lexing /\ PeekChar(lexer) \in IdentifierStart
    /\ lexer' = EndArm(Started(lexer, default_arm(lexer))) /\ LexRunning

LexUnknown ==
    /\ Lexing /\ PeekChar(lexer) \notin MatchedChars
    /\ lexer' = EndArm(Started(lexer, default_arm(lexer))) /\ LexRunning

(* the fault of a return that forgets the EOF token *)
ReturnWithoutEOF ==
    /\ phase = "lex" /\ lexer.state = "run" /\ ~HasNext(lexer)
    /\ lexer' = [lexer EXCEPT !.state = "ok"]
    /\ LexRunning

(* lines 382-383: the loop has ended; push EOF and return Ok(tokens) *)
LexEnd ==
    /\ phase = "lex" /\ lexer.state = "run" /\ ~HasNext(lexer)
    /\ lexer' = [Started(lexer, Push(lexer, "EOF", <<>>)) EXCEPT !.state = "ok"]
    /\ LexRunning

FrontRunning == UNCHANGED <<program, tw_vars, vm_vars>>

(* parse(&tokens), on the tokens of tokenize or on a given token sequence *)
Parse ==
    /\ IF program.name \in TokenFamilies THEN phase = "start"
       ELSE phase = "lex" /\ lexer.state = "ok"
    /\ parser' = parse(IF program.name \in TokenFamilies THEN TokenInput(program)
                       ELSE lexer.tokens)
    /\ phase' = "finished"
    /\ UNCHANGED lexer
    /\ FrontRunning

(* tokenizer::tokenize: the call, the arms of its loop, and its return *)
LexNext ==
    \/ tokenize \/ LexNumber \/ LexSingle \/ LexPair \/ LexSlash \/ LexNewLine
    \/ LexWhitespace \/ LexString \/ LexPipe \/ LexAmpersand \/ LexIdentifier
    \/ LexUnknown \/ LexEnd

FrontNext == LexNext \/ Parse

Init ==
    /\ program \in Programs
    /\ phase = "start"
    /\ tw_ctl = [mode |-> "ret", val |-> Null]
    /\ tw_k = <<>>
    /\ current_scope = global_environment
    /\ tw_scopes = <<Scope_new(0)>>
    /\ tw_arrs = <<>>
    /\ tw_objs = <<>>
    /\ tw_out = ""
    /\ tw_status = "run"
    /\ tw_error = ""
    /\ tw_result = Null
    /\ cg = CodeGenerator_new(<<>>, <<>>)
    /\ stack = <<>>
    /\ call_stack = <<>>
    /\ globals = <<>>
    /\ vm_envs = <<>>
    /\ vm_arrs = <<>>
    /\ vm_objs = <<>>
    /\ vm_out = ""
    /\ vm_status = "idle"
    /\ vm_error = ""
    /\ vm_result = Unit
    /\ lexer = Lexer_idle
    /\ parser = Parser_idle

Next == FrontNext \/ TreeWalkStep \/ generate \/ run \/ VmNext

Spec == Init /\ [][Next]_vars

(* the runs of the front end on a text; tokenize runs to its return on the *)
(* thread of main()                                                       *)
LexInit == Init /\ program.name \in TextFamilies
LexSpec == LexInit /\ [][FrontNext]_vars /\ WF_vars(LexNext)

-----------------------------------------------------------------------------
(* Properties.                                                              *)

TwFinished == tw_status /= "run"
VmFinished == vm_status \notin {"idle", "run"}
BothFinished == TwFinished /\ (VmFinished \/ (phase = "codegen" /\ ~cg.ok))
Expected == Cases(program.name)[program.arg[1]]
Prog(name, arg) == [name |-> name, arg |-> arg]

(* C1: every end-to-end scenario of the spec prints the same text when it  *)
(* is run by the tree-walk evaluator and when it is compiled by the code    *)
(* generator and run by the VM.                                             *)
C1_BackendAgreement ==
    (program.name = "scenario" /\ BothFinished) => (cg.ok /\ vm_out = tw_out)

(* scenario 1, `std.println(1 + 2 * 3);`: the evaluator prints 7, the VM    *)
(* stops at LoadVar("std") having printed nothing                           *)
C1_ScenarioDiverges ==
    /\ program = Prog("scenario", <<1>>)
    /\ tw_status = "done" /\ tw_out = "7\n"
    /\ vm_status = "error" /\ vm_out = ""
    /\ vm_error = "Variable std not found during LoadVar"

(* C2: a function value captures the environment of its declaration site;   *)
(* calls resolve and assign free variables there, and an assignment made by *)
(* one call or by the outer code is seen by later calls: a counter closure  *)
(* made by mk() and called n times returns 1, 2, .., n.                     *)
C2_Closures ==
    /\ (program.name = "counter" /\ TwFinished) =>
            (tw_status = "done" /\ tw_out = Digits(program.arg[1]))
    /\ (program.name = "closure" /\ TwFinished) =>
            (tw_status = Expected.status /\ tw_out = Expected.out)

C2_CounterCounts ==
    /\ program = Prog("counter", <<MaxCalls>>)
    /\ tw_status = "done" /\ tw_out = Digits(MaxCalls)
    /\ \E i \in DOMAIN tw_scopes :
            /\ "c" \in DOMAIN tw_scopes[i].variables
            /\ tw_scopes[i].variables["c"] = Number(MaxCalls)

(* C3: a Return value reaching a Block or a While loop ends it at once and   *)
(* is handed on unchanged; the call gives the returned value itself, or Null *)
(* when the body ended without a return; so a function whose `return 7` sits *)
(* under any nesting of Block, If and While runs no later statement.         *)
C3_ReturnPropagation ==
    /\ []((program.name = "return" /\ TwFinished) =>
            (tw_status = "done" /\ tw_out = "7null"))
    /\ [][(phase = "treewalk" /\ tw_status = "run" /\ tw_ctl.mode = "ret" /\ tw_k /= <<>>) =>
            /\ (tw_ctl.val.t = "Return" /\ Top.kind \in {"Block", "WhileBody"}) =>
                    (tw_ctl' = tw_ctl /\ tw_k' = Rest)
            /\ Top.kind = "CallBody" =>
                    /\ tw_k' = Rest /\ tw_ctl'.mode = "ret"
                    /\ tw_ctl'.val = (IF tw_ctl.val.t = "Return" THEN tw_ctl.val.val
                                      ELSE Null)]_vars

C3_ReturnFromNesting ==
    /\ program = Prog("return", <<MaxDepth>>)
    /\ tw_status = "done" /\ tw_out = "7null"

(* C4: a call of a user function with a number of arguments other than its  *)
(* number of parameters is a runtime error and does not enter the body, in  *)
(* the tree-walk evaluator and in the VM.                                   *)
C4_ArityChecked ==
    [][/\ (/\ phase = "treewalk" /\ tw_status = "run" /\ tw_ctl.mode = "ret"
           /\ tw_k /= <<>> /\ Top.kind = "Callee" /\ tw_ctl.val.t = "Function"
           /\ Len(tw_ctl.val.parameters) /= Len(Top.arguments)) =>
                (tw_status' = "error" /\ tw_k' = tw_k)
       /\ (/\ phase = "vm" /\ vm_status = "run" /\ call_stack /= <<>>
           /\ Frame.instruction_pointer < Len(Frame.function.instructions)
           /\ Instruction.op = "Call"
           /\ Len(stack) >= Instruction.arg_count + 2
           /\ LET function_value == stack[Len(stack) - Instruction.arg_count]
              IN  /\ function_value.t = "Function"
                  /\ function_value.name = <<>> \/ function_value.name[1] \notin std_lib
                  /\ Len(function_value.parameters) /= Instruction.arg_count) =>
                (vm_status' = "error" /\ call_stack' = call_stack)]_vars

(* `0; fn f(a, b) { return a; } f(1);` on the VM: f's frame is entered with *)
(* b bound to Null                                                          *)
C4_VmBodyEntered ==
    /\ program = Prog("arity", <<1>>)
    /\ vm_status = "run" /\ Len(call_stack) = 2
    /\ Frame.function.parameters = <<"a", "b">>
    /\ vm_envs[Frame.environment].values["b"] = Null

(* C5: `x = e` replaces the binding of x in the innermost enclosing scope    *)
(* that defines x and changes no other scope; when no enclosing scope        *)
(* defines x the run ends with an error and no scope gets a binding for x.   *)
C5_IdentifierAssignment ==
    (program.name = "assign" /\ TwFinished) =>
        /\ tw_status = Expected.status /\ tw_out = Expected.out
        /\ \A i \in DOMAIN tw_scopes : "y" \notin DOMAIN tw_scopes[i].variables
        /\ tw_status = "done" =>
                tw_scopes[global_environment].variables["x"] =
                    Number(IF program.arg = <<2>> THEN 1 ELSE 2)

C5_InnerAssignment ==
    /\ program = Prog("assign", <<2>>)
    /\ tw_status = "done" /\ tw_out = "31"
    /\ \E i \in DOMAIN tw_scopes :
            i /= global_environment /\ "x" \in DOMAIN tw_scopes[i].variables
            /\ tw_scopes[i].variables["x"] = Number(3)

(* C6: `o.m = e` leaves the Object o with m mapped to the value of e and its *)
(* other keys unchanged, whether or not m was a key of o; a receiver that is *)
(* not an Object is a runtime error.                                        *)
C6_MemberAssignment ==
    (program.name = "member" /\ TwFinished) =>
        (tw_status = Expected.status /\ tw_out = Expected.out)

(* `let o = {x: 1}; o.y = 2;`: the left operand o.y is evaluated as a value  *)
(* first and is not found                                                   *)
C6_NewKeyRejected ==
    /\ program = Prog("member", <<2>>)
    /\ tw_status = "error" /\ tw_error = "Property not found in object"
    /\ \A i \in DOMAIN tw_objs : "y" \notin DOMAIN tw_objs[i]

(* C7: after `let b = a` with a an Array, a and b are one container: after  *)
(* any sequence of push, pop, set and remove through either name both names *)
(* have the same elements, and a.length() and b.length() print the same.    *)
C7_SharedArray ==
    LET globals_tw == tw_scopes[global_environment].variables
    IN  (program.name = "shared" /\ "a" \in DOMAIN globals_tw /\ "b" \in DOMAIN globals_tw) =>
            /\ globals_tw["a"].t = "Array" /\ globals_tw["b"].t = "Array"
            /\ tw_arrs[globals_tw["a"].ref] = tw_arrs[globals_tw["b"].ref]
            /\ tw_status = "done" =>
                    tw_out = ToString(Len(tw_arrs[globals_tw["a"].ref]))
                             \o ToString(Len(tw_arrs[globals_tw["b"].ref]))
            /\ (tw_status = "done" /\ program.arg = <<2>>) => tw_out = "22"

(* `let a = [1]; let b = a; b.push(3);`: both lengths print 2 *)
C7_PushThroughAlias ==
    /\ program = Prog("shared", <<2>>)
    /\ tw_status = "done" /\ tw_out = "22"
    /\ tw_arrs[tw_scopes[global_environment].variables["a"].ref] = <<Number(1), Number(3)>>

(* C8: `if (x) A else B` runs A exactly when x is truthy (true, a Number    *)
(* other than 0, a non-empty String, any Array, Object or Function) and B    *)
(* exactly when x is falsy (false, 0, the empty String, Null), in the        *)
(* tree-walk evaluator and, compiled to JumpIfFalse, in the VM.             *)
C8_Truthiness ==
    LET expected == IF TruthValues[program.arg[1]].truthy THEN "A" ELSE "B"
    IN  program.name = "truthy" =>
            /\ (program.arg[2] = 1 /\ TwFinished) =>
                    (tw_status = "done" /\ tw_out = expected)
            /\ (program.arg[2] = 2 /\ VmFinished) =>
                    (vm_status = "done" /\ vm_out = expected)

(* `if (1) std.print("A") else std.print("B")` in the tree-walk evaluator *)
C8_NumberConditionRejected ==
    /\ program = Prog("truthy", <<4, 1>>)
    /\ tw_status = "error" /\ tw_error = "Condition must be a boolean"
    /\ tw_out = ""

(* C9: in `l && r` the right operand is evaluated exactly when l is truthy, *)
(* in `l || r` exactly when l is falsy: f() in `x && f()` and `x || f()`     *)
(* prints exactly in those cases.                                           *)
C9_ShortCircuit ==
    (program.name = "shortcircuit" /\ TwFinished) =>
        /\ tw_status = "done"
        /\ tw_out = IF (program.arg[2] = 1) = TruthValues[program.arg[1]].truthy
                    THEN "f" ELSE ""

(* `false && f()` and `true || f()` have finished and f has printed nothing *)
C9_RightOperandSkipped ==
    /\ program \in {Prog("shortcircuit", <<2, 1>>), Prog("shortcircuit", <<1, 2>>)}
    /\ tw_status = "done" /\ tw_out = ""
    /\ tw_result = Boolean(program.arg[2] = 2)

(* C10: whenever the evaluation of a node returns, the current scope is the *)
(* scope that was current when it started, for a Block and for a call of a  *)
(* user function, ended normally or by a Return; a `let` inside a Block is  *)
(* not visible after the Block, and one that shadows an outer name leaves    *)
(* the outer binding unchanged.                                             *)
C10_ScopeDiscipline ==
    /\ (phase /= "start" /\ tw_ctl.mode = "ret" /\ tw_k /= <<>>) => current_scope = Top.sc
    /\ TwFinished /\ tw_status = "done" => current_scope = global_environment
    /\ (program.name = "scope" /\ TwFinished) =>
            (tw_status = Expected.status /\ tw_out = Expected.out)

(* a call whose body returned from inside a While inside Blocks has         *)
(* finished, and the shadowed global x still prints 1                       *)
C10_ScopeRestored ==
    /\ program = Prog("scope", <<3>>)
    /\ tw_status = "done" /\ tw_out = "21"
    /\ current_scope = global_environment
    /\ Len(tw_scopes) > 3

(* C11: a for loop produced by the parser runs its init once, then body and *)
(* step once per truthy evaluation of the condition: the tree-walk run of   *)
(* `for let i = 0; i < n; i = i + 1; { std.print(i); }` ends normally and   *)
(* has printed 0 .. n-1.                                                    *)
C11_ForLoop ==
    (program.name = "for" /\ TwFinished)
        => (tw_status = "done" /\ tw_out = ForOutput(program.arg[1]))

(* the parser accepts the loop and returns a ForStatement, and the          *)
(* evaluator has stopped on it                                              *)
C11_ForUnsupported ==
    /\ program.name = "for" /\ program.arg[1] = 2
    /\ parse(ForTokens(2)).state = "ok"
    /\ parse(ForTokens(2)).ast.statements = ForProgram(2)
    /\ Statements(program)[1].kind = "ForStatement"
    /\ Statements(program)[1].body.statements /= <<>>
    /\ tw_status = "error" /\ tw_error = "Unsupported AST node" /\ tw_out = ""

(* C12: on an Array of length n, get(i) returns element i for 0 <= i < n    *)
(* and element n+i for -n <= i < 0; get, set and remove with any other      *)
(* index (for set and remove: every negative index too) end with an index   *)
(* error and leave the array as it was.                                     *)
C12_ArrayIndexing ==
    (program.name = "index" /\ TwFinished) =>
        LET method == IndexMethods[program.arg[1]]
            n == program.arg[2]
            i == IndexOf(program)
            valid == IF method = "get" THEN 0 - n <= i /\ i < n ELSE 0 <= i /\ i < n
        IN  /\ (method = "get" /\ valid) =>
                (tw_status = "done" /\ tw_out = ToString(IF i < 0 THEN n + i + 1 ELSE i + 1))
            /\ ~valid =>
                /\ tw_status = "error" /\ tw_error = "Index out of bounds"
                /\ tw_arrs[1] = [k \in 1..n |-> Number(k)]

(* set(-1, 9) on [1, 2] has ended normally and overwritten element 0 *)
C12_NegativeIndexAccepted ==
    /\ program = Prog("index", <<2, 2, MaxLen>>)
    /\ IndexOf(program) = -1
    /\ tw_status = "done"
    /\ tw_arrs[1] = <<Number(9), Number(2)>>

RECURSIVE BitOrNat(_, _)
BitOrNat(a, b) ==
    IF a = 0 THEN b ELSE IF b = 0 THEN a
    ELSE (IF a % 2 = 1 \/ b % 2 = 1 THEN 1 ELSE 0) + 2 * BitOrNat(a \div 2, b \div 2)

(* C13: in the tree-walk evaluator `a & b` is the bitwise AND and `a | b`   *)
(* the bitwise OR of two Numbers; a non-Number operand is a type error.     *)
C13_Bitwise ==
    (program.name = "bitwise" /\ TwFinished) =>
        LET op == BitwiseOps[program.arg[1]]
            a == program.arg[2]
            b == program.arg[3]
        IN  IF a <= MaxOperand /\ b <= MaxOperand
            THEN /\ tw_status = "done"
                 /\ tw_out = ToString(IF op = "BitAnd" THEN BitAndNat(a, b)
                                      ELSE BitOrNat(a, b))
            ELSE tw_status = "error" /\ tw_error = "Unsupported binary operation"

(* 1 | 2 has been evaluated and printed as 0 *)
C13_OrComputesAnd ==
    /\ program = Prog("bitwise", <<2, 1, 2>>)
    /\ BitwiseOps[2] = "BitOr"
    /\ tw_status = "done" /\ tw_out = "0"

(* the precedence table of the language, ascending *)
Level(op) ==
    CASE op = "Assign" -> 1 [] op = "Or" -> 3 [] op = "And" -> 4 [] op = "BitAnd" -> 5
      [] op = "BitXor" -> 6 [] op = "BitOr" -> 7 [] op \in {"Equal", "NotEqual"} -> 8
      [] op \in {"Less", "LessEqual", "Greater", "GreaterEqual"} -> 9
      [] op \in {"Plus", "Minus"} -> 10 [] op \in {"Star", "Mod", "Slash"} -> 11

Parsed == phase = "finished" /\ parser.state /= "idle"
Operands(form) == IF form = 1 THEN <<V("a"), V("b"), V("c")>> ELSE <<Num(1), Num(2), Num(3)>>
LeftNested(o1, o2, x) == BinaryOp(BinaryOp(x[1], o1, x[2]), o2, x[3])
RightNested(o1, o2, x) == BinaryOp(x[1], o1, BinaryOp(x[2], o2, x[3]))

(* C14: for two infix operators of different precedence levels, the         *)
(* operator of the higher level binds tighter on either side:               *)
(* `x lo y hi z` parses as lo(x, hi(y, z)) and `x hi y lo z` as              *)
(* lo(hi(x, y), z).                                                         *)
C14_Precedence ==
    (program.name = "infix" /\ Parsed) =>
        LET o1 == InfixOps[program.arg[1]]
            o2 == InfixOps[program.arg[2]]
            x == Operands(program.arg[3])
        IN  Level(o1) /= Level(o2) =>
               /\ parser.state = "ok"
               /\ parser.ast = Program(<<IF Level(o1) < Level(o2)
                                         THEN RightNested(o1, o2, x)
                                         ELSE LeftNested(o1, o2, x)>>)

(* `1 + 2 * 3` has been parsed as Add(1, Mul(2, 3)) and `a = b + c;` as      *)
(* Assign(a, Add(b, c))                                                     *)
C14_MulBindsTighter ==
    /\ Parsed /\ program.name = "infix"
    /\ \/ /\ program.arg = <<13, 15, 2>>
          /\ parser.ast.statements[1] =
                 BinaryOp(Num(1), "Plus", BinaryOp(Num(2), "Star", Num(3)))
       \/ /\ program.arg = <<1, 13, 1>>
          /\ parser.ast.statements[1] =
                 BinaryOp(V("a"), "Assign", BinaryOp(V("b"), "Plus", V("c")))

(* C15: `=` is right-associative and every other binary operator is         *)
(* left-associative: `a = b = c` parses as Assign(a, Assign(b, c)), and      *)
(* `a op b op' c` with op, op' of one level as op'(op(a, b), c).             *)
C15_Associativity ==
    (program.name = "infix" /\ Parsed) =>
        LET o1 == InfixOps[program.arg[1]]
            o2 == InfixOps[program.arg[2]]
            x == Operands(program.arg[3])
        IN  Level(o1) = Level(o2) =>
               /\ parser.state = "ok"
               /\ parser.ast = Program(<<IF o1 = "Assign" THEN RightNested(o1, o2, x)
                                         ELSE LeftNested(o1, o2, x)>>)

(* `a = b = c;` has been parsed as Assign(Assign(a, b), c) *)
C15_AssignLeftNested ==
    /\ Parsed /\ program = Prog("infix", <<1, 1, 1>>)
    /\ parser.state = "ok"
    /\ parser.ast.statements[1] = LeftNested("Assign", "Assign", Operands(1))

KindsOf(arg) == [i \in DOMAIN arg |-> TokenAlphabet[arg[i]].kind]

(* C16: parse is total: on every token sequence that ends in EOF it returns *)
(* Ok(Program) or Err with a non-empty error list, and reads no token       *)
(* beyond the end of the sequence.                                          *)
C16_Totality ==
    (program.name = "tokens" /\ Parsed) =>
        /\ parser.state \in {"ok", "err"}
        /\ parser.state = "err" => parser.errors /= <<>>

(* parse has indexed past the end of the tokens of the truncated array      *)
(* literal `a = [ 1` and of the truncated object literal `a = {`            *)
C16_TruncatedLiteralPanics ==
    /\ program.name = "tokens" /\ Parsed
    /\ KindsOf(program.arg) \in {<<"Identifier", "Assign", "LBrack", "Number">>,
                                 <<"Identifier", "Assign", "LBrace">>}
    /\ parser.state = "panic"
    /\ parser.parser.current >= Len(TokenInput(program))

(* the direct sub-nodes of an AST node *)
Children(node) ==
    CASE node.kind \in {"Program", "Block"} -> node.statements
      [] node.kind \in {"Expression", "ReturnStatement"} -> <<node.expr>>
      [] node.kind = "ObjectLiteral" ->
             [i \in DOMAIN node.properties |-> node.properties[i][2]]
      [] node.kind = "ArrayLiteral" -> node.values
      [] node.kind = "BinaryOp" -> <<node.left, node.right>>
      [] node.kind = "UnaryOp" -> <<node.operand>>
      [] node.kind = "VariableDeclaration" -> <<node.value>>
      [] node.kind = "IfStatement" ->
             <<node.condition, node.consequence>> \o node.alternative
      [] node.kind = "FunctionCall" -> <<node.callee>> \o node.arguments
      [] node.kind = "FunctionDeclaration" -> <<node.body>>
      [] node.kind = "WhileStatement" -> <<node.condition, node.body>>
      [] node.kind = "MemberAccess" -> <<node.object>>
      [] node.kind = "ForStatement" ->
             <<node.start, node.condition, node.iter, node.body>>
      [] OTHER -> <<>>

RECURSIVE AssignTargetsOk(_)
AssignTargetsOk(node) ==
    /\ (node.kind = "BinaryOp" /\ node.op = "Assign")
           => node.left.kind \in {"Variable", "MemberAccess"}
    /\ \A i \in DOMAIN Children(node) : AssignTargetsOk(Children(node)[i])

(* C17: in every AST returned by parse the left operand of each `=` is a    *)
(* Variable or a MemberAccess; any other target makes parse return errors.  *)
C17_AssignmentTargets ==
    (program.name = "tokens" /\ Parsed /\ parser.state = "ok")
        => AssignTargetsOk(parser.ast)

(* `1 = 1;` has been parsed without an error *)
C17_LiteralTargetAccepted ==
    /\ program.name = "tokens" /\ Parsed
    /\ KindsOf(program.arg) = <<"Number", "Assign", "Number", "SemiColon">>
    /\ parser.state = "ok" /\ parser.errors = <<>>
    /\ parser.ast = Program(<<BinaryOp(Num(1), "Assign", Num(1))>>)

(* the cursor just after the first `;` at or after index from, else the end *)
SyncTarget(tokens, from) ==
    LET semis == {j \in (from + 1)..Len(tokens) : tokens[j].kind = "SemiColon"}
    IN  IF semis = {} THEN Len(tokens)
        ELSE CHOOSE j \in semis : \A k \in semis : j <= k

(* C18: every parse error appends one {message, line, column} record and    *)
(* moves the cursor to just after the next `;` at or after its position,    *)
(* or to the end of the tokens; parsing resumes from there; parse returns   *)
(* Ok(Program) exactly when no error was recorded, and otherwise all the    *)
(* recorded errors in the order of their detection.                         *)
C18_ErrorRecovery ==
    (program.name = "tokens" /\ Parsed) =>
        LET p == parser.parser
            tokens == TokenInput(program)
        IN  /\ Len(p.errors) = Len(p.syncs)
            /\ \A i \in DOMAIN p.syncs :
                   /\ p.syncs[i].to = SyncTarget(tokens, p.syncs[i].from)
                   /\ i > 1 => p.syncs[i - 1].to <= p.syncs[i].from
                   /\ \E j \in DOMAIN tokens :
                          /\ p.errors[i].line = tokens[j].line
                          /\ p.errors[i].column = tokens[j].column
                          /\ j <= p.syncs[i].from + 1
            /\ parser.state /= "panic" =>
                   /\ parser.state = "ok" <=> p.errors = <<>>
                   /\ parser.state = "err" => parser.errors = p.errors

(* `) ; a )`: the error at `)` skipped to just after the `;`, the statement *)
(* `a` was parsed, and the second `)` gave a second error, returned after   *)
(* the first                                                                *)
C18_ResumedAfterSemicolon ==
    /\ program.name = "tokens" /\ Parsed
    /\ KindsOf(program.arg) = <<"RParen", "SemiColon", "Identifier", "RParen">>
    /\ parser.state = "err"
    /\ parser.parser.syncs = <<[from |-> 1, to |-> 2], [from |-> 4, to |-> 5]>>
    /\ parser.ast.statements[2] = V("a")
    /\ Len(parser.errors) = 2
    /\ parser.errors[1].column = 1 /\ parser.errors[2].column = 4

(* C19: for every text, tokenize terminates, and what it returns is either *)
(* a LexError or a token list that holds exactly one EOF token, its last    *)
(* element. Every iteration of the loop that does not return an error       *)
(* leaves fewer characters to read, and the run reaches Ok or Err.          *)
EOFCount(tokens) == Cardinality({i \in DOMAIN tokens : tokens[i].kind = "EOF"})

Returned == lexer.state \in {"ok", "err"}

C19_LexerOutputShape ==
    /\ [](lexer.state = "ok" =>
            /\ lexer.tokens /= <<>>
            /\ lexer.tokens[Len(lexer.tokens)].kind = "EOF"
            /\ EOFCount(lexer.tokens) = 1
            /\ lexer.error = <<>>)
    /\ [](lexer.state = "err" => lexer.error /= <<>>)
    /\ [][Lexing => (lexer'.state = "err" \/ lexer'.pos > lexer.pos)]_vars
    /\ (phase = "lex" ~> Returned)

(* `1.a` is read to its end as a number, an identifier and EOF *)
C19_ThreeTokens ==
    /\ program.name = "text" /\ lexer.state = "ok"
    /\ lexer.text = <<"1", ".", "a">>
    /\ lexer.pos = Len(lexer.text)
    /\ Len(lexer.tokens) = 3
    /\ lexer.tokens[1].kind = "Number" /\ lexer.tokens[1].value = <<"1", ".">>
    /\ lexer.tokens[2].kind = "Identifier"
    /\ lexer.tokens[3].kind = "EOF"

(* C20: a text that ends inside a string literal (no quote matching the    *)
(* opening one) or inside a block comment (no closing `*/`) makes tokenize  *)
(* return a LexError and no token list.                                     *)
UnterminatedString(text) ==
    /\ text /= <<>> /\ text[1] \in {"\"", "'"}
    /\ \A i \in 2..Len(text) : text[i] \notin {text[1], "\\"}

UnterminatedComment(text) ==
    /\ Len(text) >= 2 /\ text[1] = "/" /\ text[2] = "*"
    /\ \A i \in 3..(Len(text) - 1) : ~(text[i] = "*" /\ text[i + 1] = "/")

C20_UnterminatedForms ==
    (Returned /\ (UnterminatedString(lexer.text) \/ UnterminatedComment(lexer.text)))
        => lexer.state = "err"

(* `"a` is returned as the String token `a` followed by EOF *)
C20_PartialStringToken ==
    /\ program.name = "text" /\ lexer.state = "ok"
    /\ lexer.text = <<"\"", "a">>
    /\ UnterminatedString(lexer.text)
    /\ Len(lexer.tokens) = 2
    /\ lexer.tokens[1] = Token_new("String", <<"a">>, 1, 1)
    /\ lexer.tokens[2].kind = "EOF"
    /\ lexer.error = <<>>

(* C21: every token of tokenize carries line = 1 + the number of newline    *)
(* characters in front of its first character, and column = the 1-based     *)
(* offset of that character within its line.                                *)
NewlinesBefore(text, i) == {j \in 1..(i - 1) : text[j] = "\n"}

LineOf(text, i) == 1 + Cardinality(NewlinesBefore(text, i))

ColumnOf(text, i) ==
    LET before == NewlinesBefore(text, i)
    IN  IF before = {} THEN i
        ELSE i - (CHOOSE j \in before : \A k \in before : k <= j)

C21_TokenPositions ==
    lexer.state \in {"run", "ok"} =>
        \A i \in DOMAIN lexer.tokens :
            lexer.tokens[i].kind /= "EOF" =>
                /\ lexer.tokens[i].line = LineOf(lexer.text, lexer.starts[i])
                /\ lexer.tokens[i].column = ColumnOf(lexer.text, lexer.starts[i])

(* `11a`: the identifier begins at the third character and is reported in *)
(* column 2, the number of the loop iteration that read it                *)
C21_ColumnCountsIterations ==
    /\ program.name = "text" /\ lexer.state = "ok"
    /\ lexer.text = <<"1", "1", "a">>
    /\ lexer.tokens[2].kind = "Identifier"
    /\ lexer.starts[2] = 3
    /\ ColumnOf(lexer.text, 3) = 3
    /\ lexer.tokens[2].column = 2

(* C22: for a text that lexes successfully, the lexemes of the tokens, in   *)
(* order, are the text without its whitespace and comments: no other        *)
(* character is dropped, also between adjacent tokens, and a single `|` is  *)
(* a token of its own. Stated for texts without quotes and comments, where  *)
(* a token's value is its lexeme.                                           *)
RECURSIVE Lexemes(_)
Lexemes(tokens) ==
    IF tokens = <<>> THEN <<>> ELSE Head(tokens).value \o Lexemes(Tail(tokens))

IsSignificant(c) == c \notin Whitespace \cup {"\n"}

Plain(text) ==
    /\ \A i \in DOMAIN text : text[i] \notin {"\"", "'", "\\", "#"}
    /\ \A i \in 1..(Len(text) - 1) : ~(text[i] = "/" /\ text[i + 1] \in {"/", "*"})

C22_LexRoundTrip ==
    /\ (lexer.state = "ok" /\ Plain(lexer.text)) =>
           Lexemes(lexer.tokens) = SelectSeq(lexer.text, IsSignificant)
    /\ (Returned /\ lexer.text = <<"|">>) =>
           /\ lexer.state = "ok"
           /\ lexer.tokens[1].kind = "BitOr"

(* `a/a` lexes to the identifier `a`, the division sign and EOF: the second *)
(* `a` is gone                                                              *)
C22_OperandDropped ==
    /\ program.name = "text" /\ lexer.state = "ok"
    /\ lexer.text = <<"a", "/", "a">>
    /\ Plain(lexer.text)
    /\ Len(lexer.tokens) = 3
    /\ lexer.tokens[1].kind = "Identifier"
    /\ lexer.tokens[2].kind = "Slash"
    /\ lexer.tokens[3].kind = "EOF"
    /\ Lexemes(lexer.tokens) = <<"a", "/">>

(* C23: executing Call(argc) removes exactly argc + 1 values from the       *)
(* operand stack, the arguments and the callee, and leaves the values       *)
(* beneath the callee untouched; for a user function, parameter i is bound  *)
(* to the i-th argument in a new environment and a frame with instruction   *)
(* pointer 0 is pushed.                                                     *)
C23_CallProtocol ==
    [][(Fetching({"Call"}) /\ vm_status' = "run") =>
          LET argc == Instruction.arg_count
              entered == Len(call_stack') = Len(call_stack) + 1
              callee == call_stack'[Len(call_stack')]
          IN  /\ Len(stack') >= Len(stack) - (argc + 1)
              /\ SubSeq(stack', 1, Len(stack) - (argc + 1)) = Popped(argc + 1)
              /\ entered =>
                    /\ stack' = Popped(argc + 1)
                    /\ callee.instruction_pointer = 0
                    /\ callee.function = stack[Len(stack) - argc]
                    /\ callee.environment = Len(vm_envs) + 1
                    /\ \A i \in 1..Len(callee.function.parameters) :
                          i <= argc =>
                             vm_envs'[callee.environment].values[
                                 callee.function.parameters[i]]
                                = stack[Len(stack) - argc + i]]_vars

(* `0; fn sq(x) {..} sq(3)`: sq is entered with x = 3, and the 0 that lay *)
(* beneath the callee has been popped with it                             *)
C23_ValueBeneathCalleePopped ==
    /\ program = [name |-> "vm", arg |-> <<2>>]
    /\ phase = "vm" /\ vm_status = "run"
    /\ Len(call_stack) = 2 /\ Frame.instruction_pointer = 0
    /\ Frame.function.parameters = <<"x">>
    /\ vm_envs[Frame.environment].values["x"] = Number(3)
    /\ stack = <<>>

(* C24: the environment of a call of a user function is a child of the     *)
(* environment where the function was defined, not of the caller's: a free  *)
(* variable of the body reads the defining environment's binding although   *)
(* the caller binds the same name, and a StoreVar to a name of an enclosing *)
(* environment updates that binding. The functions of these programs are    *)
(* all defined in the environment of the main frame.                        *)
C24_LexicalScoping ==
    (program.name = "lexical" /\ phase = "vm") =>
        /\ \A i \in 2..Len(call_stack) :
               vm_envs[call_stack[i].environment].parent = call_stack[1].environment
        /\ vm_status = "done" =>
               vm_result = Number(IF program.arg[3] = 1 THEN program.arg[1]
                                  ELSE program.arg[2])

(* with x = 1 where f is defined and x = 2 in its caller g, f returns 2 *)
C24_CallerBindingRead ==
    /\ program = [name |-> "lexical", arg |-> <<1, 2, 1>>]
    /\ phase = "vm" /\ vm_status = "done"
    /\ vm_result = Number(2)

(* C25: in the bytecode generated for a nesting of If and While statements  *)
(* each If's JumpIfFalse targets the index after that If's trailing Jump    *)
(* and that Jump targets the index after the else branch; each While's      *)
(* JumpIfFalse targets the index after its back Jump and the back Jump      *)
(* targets the first instruction of the condition; a JumpIfFalse target is  *)
(* greater than the jump's own index, no target exceeds the number of       *)
(* instructions, and no placeholder is left.                                *)
RECURSIVE Size(_), SizeAll(_, _)
(* the number of instructions of a statement of these programs *)
Size(node) ==
    CASE node.kind = "Block" -> SizeAll(node.statements, 1)
      [] node.kind = "IfStatement" ->
            Size(node.condition) + 1 + Size(node.consequence) + 1
            + (IF node.alternative = <<>> THEN 0 ELSE Size(node.alternative[1]))
      [] node.kind = "WhileStatement" -> Size(node.condition) + 1 + Size(node.body) + 1
      [] OTHER -> 1

SizeAll(nodes, i) ==
    IF i > Len(nodes) THEN 0 ELSE Size(nodes[i]) + SizeAll(nodes, i + 1)

At(code, index) == code[index + 1]

RECURSIVE JumpsOk(_, _, _), JumpsOkAll(_, _, _, _)
JumpsOk(code, node, start) ==
    CASE node.kind = "Block" -> JumpsOkAll(code, node.statements, 1, start)
      [] node.kind = "IfStatement" ->
            LET jif == start + Size(node.condition)
                jump == jif + 1 + Size(node.consequence)
                else_size == IF node.alternative = <<>> THEN 0
                             ELSE Size(node.alternative[1])
            IN  /\ At(code, jif) = [op |-> "JumpIfFalse", position |-> jump + 1]
                /\ At(code, jump) = [op |-> "Jump", position |-> jump + 1 + else_size]
                /\ JumpsOk(code, node.consequence, jif + 1)
                /\ node.alternative /= <<>> => JumpsOk(code, node.alternative[1], jump + 1)
      [] node.kind = "WhileStatement" ->
            LET jif == start + Size(node.condition)
                jump == jif + 1 + Size(node.body)
            IN  /\ At(code, jif) = [op |-> "JumpIfFalse", position |-> jump + 1]
                /\ At(code, jump) = [op |-> "Jump", position |-> start]
                /\ JumpsOk(code, node.body, jif + 1)
      [] OTHER -> TRUE

JumpsOkAll(code, nodes, i, start) ==
    i <= Len(nodes) =>
        /\ JumpsOk(code, nodes[i], start)
        /\ JumpsOkAll(code, nodes, i + 1, start + Size(nodes[i]))

Generated == phase \in {"codegen", "vm"}

C25_JumpPatching ==
    (program.name = "jumps" /\ Generated) =>
        /\ cg.ok
        /\ Len(cg.bytecode) = SizeAll(Statements(program), 1)
        /\ JumpsOkAll(cg.bytecode, Statements(program), 1, 0)
        /\ \A i \in DOMAIN cg.bytecode :
               /\ cg.bytecode[i].op = "JumpIfFalse" =>
                      /\ cg.bytecode[i].position > i - 1
                      /\ cg.bytecode[i].position <= Len(cg.bytecode)
               /\ cg.bytecode[i].op = "Jump" =>
                      /\ cg.bytecode[i].position <= Len(cg.bytecode)
                      /\ cg.bytecode[i].position > i - 1
                            \/ \E j \in 1..(i - 1) :
                                  /\ cg.bytecode[j].op = "JumpIfFalse"
                                  /\ cg.bytecode[j].position = i

(* `0; while (false) { if (false) { 7 } else { 7 } 7 } 7`: the While's *)
(* jumps enclose the If's                                              *)
C25_IfInsideWhile ==
    /\ program = [name |-> "jumps", arg |-> <<4, 2>>]
    /\ phase = "codegen" /\ cg.ok
    /\ Len(cg.bytecode) = 11
    /\ At(cg.bytecode, 2) = [op |-> "JumpIfFalse", position |-> 10]
    /\ At(cg.bytecode, 4) = [op |-> "JumpIfFalse", position |-> 7]
    /\ At(cg.bytecode, 6) = [op |-> "Jump", position |-> 8]
    /\ At(cg.bytecode, 9) = [op |-> "Jump", position |-> 1]

(* C26: when the VM has run `let o = {x: a}; o.x = e; o.x` the property x   *)
(* of o is the run-time value of e, which is also the result of the final   *)
(* `o.x`, and the assignment has left nothing on the operand stack.         *)
AssignedValue ==
    IF program.arg[3] = 1 THEN Number(program.arg[1] + program.arg[2])
    ELSE Number(program.arg[2])

(* the stack the assignment starts on: the property value that the code of *)
(* the object literal pushed and left                                       *)
BeforeAssignment == <<Number(program.arg[1])>>

SetPropRan == program.name = "setprop" /\ phase = "vm" /\ vm_status /= "run"

C26_MemberAssignment ==
    SetPropRan =>
        /\ vm_status = "done"
        /\ \A r \in DOMAIN vm_objs : vm_objs[r]["x"] = AssignedValue
        /\ vm_result = AssignedValue
        /\ stack = BeforeAssignment

(* `let o = {x: 1}; o.x = o.x + 2; o.x`: SetProp stored the name it popped, *)
(* and the sum stays on the stack                                           *)
C26_NameStoredAsValue ==
    /\ program = [name |-> "setprop", arg |-> <<1, 2, 1>>]
    /\ phase = "vm" /\ vm_status = "done"
    /\ vm_objs[1]["x"] = String("x")
    /\ vm_result = String("x")
    /\ stack = BeforeAssignment \o <<Number(3)>>

(* C27: when the VM has run `let v = 2; fn four() { return 4; } 0; [e1, .., *)
(* en]` the array literal has pushed exactly one value on the stack that    *)
(* held the 0, an array whose i-th element is the run-time value of ei.     *)
ElementValue(kind) ==
    CASE kind = 1 -> Number(1) [] kind = 2 -> Number(2)
      [] kind = 3 -> Number(3) [] kind = 4 -> Number(4)

LiteralRan == program.name = "literal" /\ phase = "vm" /\ vm_status /= "run"

C27_ArrayLiteral ==
    LiteralRan =>
        /\ vm_status = "done"
        /\ vm_result.t = "Array"
        /\ vm_arrs[vm_result.ref] = [i \in DOMAIN program.arg |-> ElementValue(program.arg[i])]
        /\ stack = <<Number(0)>>

(* `[v, 1]`: the array is built while compiling, from the constant last     *)
(* added after each element, and the elements' values stay on the stack     *)
C27_LastConstantTaken ==
    /\ program = [name |-> "literal", arg |-> <<2, 1>>]
    /\ phase = "vm" /\ vm_status = "done"
    /\ vm_result.t = "Array"
    /\ vm_arrs[vm_result.ref] = <<Number(0), Number(1)>>
    /\ stack = <<Number(0), Number(2), Number(1)>>
    /\ \A i \in DOMAIN cg.bytecode : cg.bytecode[i].op /= "BuildArray"

(* C28: the tree-walk evaluator evaluates the right-hand side of `x = e`    *)
(* and of `o.m = e` once per assignment and does not read the left-hand     *)
(* side: after n assignments a printing call has printed n times, a.pop()   *)
(* has removed n elements, a counter closure has counted to n, and an       *)
(* assignment to a property that does not exist yet succeeds.               *)
RECURSIVE Times(_, _)
Times(text, n) == IF n = 0 THEN "" ELSE Times(text, n - 1) \o text

OnceOutput(form, n) ==
    CASE form \in {1, 2} -> Times("7", n)
      [] form = 3 -> ToString(2 * MaxCalls - n)
      [] form = 4 -> ToString(n)
      [] form = 5 -> "7"

C28_SingleEvaluation ==
    (program.name = "once" /\ TwFinished) =>
        /\ tw_status = "done"
        /\ tw_out = OnceOutput(program.arg[1], program.arg[2])

(* `x = say();` once: say has printed twice *)
C28_PrintedTwice ==
    /\ program = Prog("once", <<1, 1>>)
    /\ TwFinished /\ tw_status = "done" /\ tw_out = "77"

(* C29: when the instructions of a called function's frame are exhausted    *)
(* the VM pops that frame only and goes on in the caller's frame at the     *)
(* instruction after the Call; the run ends only with an empty call stack,  *)
(* so `0; fn f() { .. } f(); 0; print("z")` prints z.                       *)
CalleeExhausted ==
    /\ phase = "vm" /\ vm_status = "run" /\ Len(call_stack) > 1
    /\ Frame.instruction_pointer >= Len(Frame.function.instructions)

ImplicitRan == program.name = "implicit" /\ phase = "vm" /\ vm_status /= "run"

C29_ImplicitReturn ==
    /\ [][CalleeExhausted =>
             /\ vm_status' = "run"
             /\ call_stack' = SubSeq(call_stack, 1, Len(call_stack) - 1)]_vars
    /\ [](phase = "vm" /\ vm_status = "done" => call_stack = <<>>)
    /\ [](ImplicitRan => vm_status = "done" /\ vm_out = "z")

(* f's frame ran off its end: the run is over, the frame of the main        *)
(* function is left on the call stack after its Call, nothing is printed    *)
C29_RunEndsInCallee ==
    /\ program = Prog("implicit", <<1>>)
    /\ phase = "vm" /\ vm_status = "done" /\ vm_out = ""
    /\ Len(call_stack) = 1
    /\ Frame.instruction_pointer < Len(Frame.function.instructions)
    /\ Instruction.op = "LoadConst"
    /\ Frame.function.instructions[Frame.instruction_pointer].op = "Call"

(* C30: during parse the cursor never decreases and never exceeds           *)
(* tokens.len(); every call of parse_statement that parse_program makes     *)
(* and that returns has advanced the cursor by at least one token, each     *)
(* call starts where the one before ended, so parse_program makes at most   *)
(* tokens.len() calls and parse ends on every token sequence.               *)
CursorProgress(p) ==
    LET length == Len(p.tokens)
    IN  /\ p.current <= length
        /\ \A i \in DOMAIN p.calls :
               /\ p.calls[i].from <= p.calls[i].to /\ p.calls[i].to <= length
               /\ p.calls[i].returned => p.calls[i].from < p.calls[i].to
               /\ p.calls[i].from = IF i = 1 THEN 0 ELSE p.calls[i - 1].to
               /\ (i < Len(p.calls)) => p.calls[i].returned
        /\ p.calls /= <<>> => p.current = p.calls[Len(p.calls)].to
        /\ \A i \in DOMAIN p.syncs :
               /\ p.syncs[i].from <= p.syncs[i].to /\ p.syncs[i].to <= length
               /\ i > 1 => p.syncs[i - 1].to <= p.syncs[i].from
        /\ Len(p.calls) <= length

C30_ParserProgress ==
    /\ Parsed => /\ parser.state \in {"ok", "err", "panic"}
                 /\ CursorProgress(parser.parser)
    /\ (Parsed /\ parser.state /= "panic") =>
           \/ parser.parser.current = Len(parser.parser.tokens)
           \/ parser.parser.tokens[parser.parser.current + 1].kind = "EOF"

(* `a ; ( 1` has been parsed: a statement, then a statement that runs into  *)
(* the end of the input and is recovered from                               *)
C30_TwoStatements ==
    /\ program.name = "tokens" /\ Parsed
    /\ KindsOf(program.arg) = <<"Identifier", "SemiColon", "LParen", "Number">>
    /\ parser.state = "err"
    /\ parser.parser.calls = <<[from |-> 0, to |-> 2, returned |-> TRUE],
                               [from |-> 2, to |-> 5, returned |-> TRUE]>>
    /\ parser.parser.current = 5

====
